---- MODULE Spec2Model ----
(***************************************************************************)
(* OhioFiles: the file preview route GET /:storedName of server.js, with   *)
(* the conditional-request check (fresh), the Range header parser          *)
(* (range-parser with combine: true) and the response it assembles.        *)
(*                                                                         *)
(* Header values are sequences of one-character strings, so that parsing   *)
(* and formatting are computed character by character.  An absent header   *)
(* is the empty sequence: every test the code makes on a header            *)
(* (`range && ...`, `!noneMatch`) treats undefined and '' alike.           *)
(***************************************************************************)
EXTENDS Integers, Sequences, FiniteSets, TLC

(* ------------------------------ bounds -------------------------------- *)

\* Largest file size (stats.size) of the stored file.
MaxSize == 3

\* Largest number of comma-separated byte ranges in a Range header.
MaxRanges == 2

(* --------------------------- character strings ------------------------ *)

Digits == <<"0", "1", "2", "3", "4", "5", "6", "7", "8", "9">>

HexDigits == Digits \o <<"a", "b", "c", "d", "e", "f">>

IsDigit(c) == \E i \in 1..Len(Digits) : Digits[i] = c

DigitVal(c) == (CHOOSE i \in 1..Len(Digits) : Digits[i] = c) - 1

\* String.prototype.indexOf for a single character: 1-based, 0 when absent
\* (JavaScript's -1).
IndexOf(s, c) ==
    IF \E i \in 1..Len(s) : s[i] = c
    THEN CHOOSE i \in 1..Len(s) : s[i] = c /\ \A j \in 1..(i - 1) : s[j] # c
    ELSE 0

\* String.prototype.split on a single character.
RECURSIVE Split(_, _)
Split(s, c) ==
    LET i == IndexOf(s, c)
    IN  IF i = 0 THEN <<s>>
        ELSE <<SubSeq(s, 1, i - 1)>> \o Split(SubSeq(s, i + 1, Len(s)), c)

\* Concatenation of a sequence of strings with a separator (Array.join).
RECURSIVE Join(_, _)
Join(parts, sep) ==
    IF Len(parts) = 0 THEN <<>>
    ELSE IF Len(parts) = 1 THEN parts[1]
    ELSE parts[1] \o sep \o Join(Tail(parts), sep)

\* String.prototype.trim for spaces.
RECURSIVE TrimLeft(_)
TrimLeft(s) == IF Len(s) > 0 /\ s[1] = " " THEN TrimLeft(Tail(s)) ELSE s

RECURSIVE TrimRight(_)
TrimRight(s) ==
    IF Len(s) > 0 /\ s[Len(s)] = " " THEN TrimRight(SubSeq(s, 1, Len(s) - 1)) ELSE s

Trim(s) == TrimRight(TrimLeft(s))

\* Number to string in base 10 / base 16, as template literals and
\* Number.prototype.toString(16) print a non-negative integer.
RECURSIVE ToBase(_, _)
ToBase(n, base) ==
    IF n < base THEN <<HexDigits[n + 1]>>
    ELSE ToBase(n \div base, base) \o <<HexDigits[(n % base) + 1]>>

Dec(n) == IF n < 0 THEN <<"-">> \o ToBase(0 - n, 10) ELSE ToBase(n, 10)

Hex(n) == ToBase(n, 16)

(* ------------------------- JavaScript numbers ------------------------- *)

\* A JavaScript number is <<n>>, and NaN is <<>>.
NaN == <<>>

IsNaN(x) == x = NaN

Num(n) == <<n>>

Val(x) == x[1]

\* The value of the longest prefix of decimal digits of s.
RECURSIVE DigitsValue(_, _)
DigitsValue(s, acc) ==
    IF Len(s) > 0 /\ IsDigit(s[1])
    THEN DigitsValue(Tail(s), 10 * acc + DigitVal(s[1]))
    ELSE acc

\* parseInt(s, 10): leading blanks are skipped, an optional sign is read,
\* then the longest run of digits; NaN when there is no digit.  A missing
\* array element (undefined) parses like the empty string: NaN.
ParseDigits(negative, body) ==
    IF Len(body) = 0 \/ ~IsDigit(body[1]) THEN NaN
    ELSE IF negative THEN Num(0 - DigitsValue(body, 0))
    ELSE Num(DigitsValue(body, 0))

ParseSigned(t) ==
    IF Len(t) > 0 /\ t[1] \in {"+", "-"}
    THEN ParseDigits(t[1] = "-", Tail(t))
    ELSE ParseDigits(FALSE, t)

ParseInt(s) == ParseSigned(TrimLeft(s))

\* range[k] of the array `range`, '' standing for undefined.
Piece(range, k) == IF k <= Len(range) THEN range[k] ELSE <<>>

(* --------------------- range-parser (combine: true) ------------------- *)

\* The last test of the loop body of rangeParser: an element that is
\* invalid or unsatisfiable is skipped (`continue`, the result <<>>), any
\* other is pushed.
PushRange(start, end) ==
    IF IsNaN(start) \/ IsNaN(end) \/ Val(start) > Val(end) \/ Val(start) < 0
    THEN <<>>
    ELSE <<[start |-> Val(start), end |-> Val(end)]>>

\* LimitEnd without the clamp.
LimitEndUnclamped(size, start, end) == PushRange(start, end)

\* limit last-byte-pos to current length
LimitEnd(size, start, end) ==
    PushRange(start, IF Val(end) > size - 1 THEN Num(size - 1) ELSE end)

\* ResolveRange with the suffix start one byte early.
ResolveRangeEarlySuffix(size, start, end) ==
    IF IsNaN(start)
    THEN LimitEnd(size, IF IsNaN(end) THEN NaN ELSE Num(size - Val(end) - 1), Num(size - 1))
    ELSE IF IsNaN(end)
    THEN LimitEnd(size, start, Num(size - 1))
    ELSE LimitEnd(size, start, end)

\* -nnn: start = size - end, end = size - 1;  nnn-: end = size - 1
ResolveRange(size, start, end) ==
    IF IsNaN(start)
    THEN LimitEnd(size, IF IsNaN(end) THEN NaN ELSE Num(size - Val(end)), Num(size - 1))
    ELSE IF IsNaN(end)
    THEN LimitEnd(size, start, Num(size - 1))
    ELSE LimitEnd(size, start, end)

ParsePieces(size, range) ==
    ResolveRange(size, ParseInt(Piece(range, 1)), ParseInt(Piece(range, 2)))

\* One element of the comma list, as the loop body of rangeParser reads it:
\* split on '-', parseInt both sides, resolve the suffix and open-ended
\* forms against size, clamp the end to size - 1.
ParseRangeSpec(size, item) == ParsePieces(size, Split(item, "-"))

\* The ranges pushed by the loop over the comma list, in header order.
RECURSIVE ParseRangeList(_, _)
ParseRangeList(size, arr) ==
    IF Len(arr) = 0 THEN <<>>
    ELSE ParseRangeSpec(size, arr[1]) \o ParseRangeList(size, Tail(arr))

\* ranges.map(mapWithIndex)
MapWithIndex(ranges) ==
    [i \in 1..Len(ranges) |->
        [start |-> ranges[i].start, end |-> ranges[i].end, index |-> i]]

\* Array.prototype.sort (stable) with comparator a[key] - b[key].
RECURSIVE InsertBy(_, _, _)
InsertBy(sorted, r, key) ==
    IF Len(sorted) = 0 THEN <<r>>
    ELSE IF sorted[Len(sorted)][key] <= r[key] THEN Append(sorted, r)
    ELSE Append(InsertBy(SubSeq(sorted, 1, Len(sorted) - 1), r, key), sorted[Len(sorted)])

RECURSIVE SortBy(_, _)
SortBy(rs, key) ==
    IF Len(rs) = 0 THEN <<>>
    ELSE InsertBy(SortBy(SubSeq(rs, 1, Len(rs) - 1), key), rs[Len(rs)], key)

Min(a, b) == IF a <= b THEN a ELSE b

\* The merging loop of combineRanges over the ranges ordered by start:
\* `acc` is ordered[0..j], whose last element is `current`.
RECURSIVE MergeOrdered(_, _)
MergeOrdered(acc, rest) ==
    IF Len(rest) = 0 THEN acc
    ELSE LET range == rest[1]
             current == acc[Len(acc)]
         IN  IF range.start > current.end + 1
             \* next range
             THEN MergeOrdered(Append(acc, range), Tail(rest))
             ELSE IF range.end > current.end
             \* extend range
             THEN MergeOrdered(
                      [acc EXCEPT ![Len(acc)] =
                          [start |-> current.start, end |-> range.end,
                           index |-> Min(current.index, range.index)]],
                      Tail(rest))
             ELSE MergeOrdered(acc, Tail(rest))

\* ranges.map(mapWithoutIndex)
MapWithoutIndex(combined) ==
    [i \in 1..Len(combined) |-> [start |-> combined[i].start, end |-> combined[i].end]]

MergeSorted(ordered) == MergeOrdered(<<ordered[1]>>, Tail(ordered))

\* combineRanges: order by start, merge overlapping and adjacent ranges,
\* order the result by first appearance in the header, drop the index.
combineRanges(ranges) ==
    MapWithoutIndex(SortBy(MergeSorted(SortBy(MapWithIndex(ranges), "start")), "index"))

\* The return value of rangeParser: code is -2 for a header without '=',
\* -1 when no range of the list is satisfiable, and 0 with the combined
\* ranges otherwise; type is the text before '=' (ranges.type), which the
\* parser records and never checks.
RangesOf(type, ranges, options) ==
    IF Len(ranges) < 1
    THEN [code |-> -1, type |-> type, ranges |-> <<>>]
    ELSE IF options.combine
    THEN [code |-> 0, type |-> type, ranges |-> combineRanges(ranges)]
    ELSE [code |-> 0, type |-> type, ranges |-> ranges]

ParseAt(size, str, index, options) ==
    IF index = 0
    THEN [code |-> -2, type |-> <<>>, ranges |-> <<>>]
    ELSE RangesOf(SubSeq(str, 1, index - 1),
                  ParseRangeList(size, Split(SubSeq(str, index + 1, Len(str)), ",")),
                  options)

\* rangeParser(size, str, options) of the range-parser package.
rangeParser(size, str, options) == ParseAt(size, str, IndexOf(str, "="), options)

(* ------------------------------ MIME types ---------------------------- *)

VideoMp4 == <<"v", "i", "d", "e", "o", "/", "m", "p", "4">>

AudioMpeg == <<"a", "u", "d", "i", "o", "/", "m", "p", "e", "g">>

ImagePng == <<"i", "m", "a", "g", "e", "/", "p", "n", "g">>

ApplicationPdf ==
    <<"a", "p", "p", "l", "i", "c", "a", "t", "i", "o", "n", "/", "p", "d", "f">>

TextPlain == <<"t", "e", "x", "t", "/", "p", "l", "a", "i", "n">>

ApplicationOctetStream ==
    <<"a", "p", "p", "l", "i", "c", "a", "t", "i", "o", "n", "/",
      "o", "c", "t", "e", "t", "-", "s", "t", "r", "e", "a", "m">>

\* String.prototype.startsWith
StartsWith(s, prefix) ==
    Len(s) >= Len(prefix) /\ SubSeq(s, 1, Len(prefix)) = prefix

\* The extensions of the stored files' original names.
Extensions == {".mp4", ".MP3", ".png", ".pdf", ".txt", ".zzz"}

\* path.extname(filename).toLowerCase(), on Extensions.
ToLowerCase(ext) == IF ext = ".MP3" THEN ".mp3" ELSE ext

\* mime.lookup(filename) || 'application/octet-stream': the mime-types
\* table, which ignores case, on Extensions.
MimeLookup(ext) ==
    CASE ToLowerCase(ext) = ".mp4" -> VideoMp4
      [] ToLowerCase(ext) = ".mp3" -> AudioMpeg
      [] ToLowerCase(ext) = ".png" -> ImagePng
      [] ToLowerCase(ext) = ".pdf" -> ApplicationPdf
      [] ToLowerCase(ext) = ".txt" -> TextPlain
      [] OTHER -> ApplicationOctetStream

\* getOptimizedMimeType: streamingTypes[ext] || mimeType.
getOptimizedMimeType(ext) ==
    CASE ToLowerCase(ext) = ".mp4" -> VideoMp4
      [] ToLowerCase(ext) = ".mp3" -> AudioMpeg
      [] OTHER -> MimeLookup(ext)

supportsRangeRequests(mimeType) ==
    \/ StartsWith(mimeType, <<"v", "i", "d", "e", "o", "/">>)
    \/ StartsWith(mimeType, <<"a", "u", "d", "i", "o", "/">>)
    \/ mimeType = ApplicationPdf
    \/ StartsWith(mimeType, <<"i", "m", "a", "g", "e", "/">>)

\* CacheMaxAge with one tier for every type.
CacheMaxAgeFlat(mimeType) == <<"8", "6", "4", "0", "0">>

\* The Cache-Control value chosen by content type: max-age in seconds.
CacheMaxAge(mimeType) ==
    IF \/ StartsWith(mimeType, <<"v", "i", "d", "e", "o", "/">>)
       \/ StartsWith(mimeType, <<"a", "u", "d", "i", "o", "/">>)
    THEN <<"2", "5", "9", "2", "0", "0", "0">>
    ELSE IF StartsWith(mimeType, <<"i", "m", "a", "g", "e", "/">>)
    THEN <<"6", "0", "4", "8", "0", "0">>
    ELSE <<"8", "6", "4", "0", "0">>

(* ------------------------- etag(stats) and fresh ---------------------- *)

\* etag(stats): a Stats object gets a weak tag W/"<size hex>-<mtime hex>".
etag(stats) ==
    <<"W", "/", "\"">> \o Hex(stats.size) \o <<"-">> \o Hex(stats.mtime) \o <<"\"">>

\* parseTokenList of fresh: the comma-separated tokens without the blanks
\* around them.
TrimAll(parts) == [i \in 1..Len(parts) |-> Trim(parts[i])]

ParseTokenList(str) == TrimAll(Split(str, ","))

NoCache == <<"n", "o", "-", "c", "a", "c", "h", "e">>

Contains(list, token) == \E i \in 1..Len(list) : list[i] = token

\* CACHE_CONTROL_NO_CACHE_REGEXP.test(cacheControl): no-cache is one of
\* the comma-separated directives.
HasNoCache(cacheControl) == Contains(ParseTokenList(cacheControl), NoCache)

\* SameTag taking every token for the tag.
SameTagAny(match, tag) == TRUE

\* match === etag || match === 'W/' + etag || 'W/' + match === etag
SameTag(match, tag) ==
    \/ match = tag
    \/ match = <<"W", "/">> \o tag
    \/ <<"W", "/">> \o match = tag

AnySameTag(matches, tag) == \E i \in 1..Len(matches) : SameTag(matches[i], tag)

\* The loop of fresh over the If-None-Match tokens: one of them is the
\* response's ETag, exactly or up to the weak prefix W/.
EtagMatches(noneMatch, tag) == AnySameTag(ParseTokenList(noneMatch), tag)

\* The releases of fresh the server may be installed with.  They differ in
\* one place: up to 0.5.x a matching If-None-Match is followed by the
\* If-Modified-Since check, from 1.0 on If-None-Match decides alone.
FreshReleases == {"0.5", "1.0"}

\* The checks of fresh after the unconditional and no-cache tests.  The
\* response headers passed in carry no last-modified, so an
\* If-Modified-Since check always reports stale.
FreshValidators(noneMatch, modifiedSince, tag, release) ==
    IF release = "0.5"
    THEN /\ (Len(noneMatch) > 0 /\ noneMatch # <<"*">>) => EtagMatches(noneMatch, tag)
         /\ Len(modifiedSince) = 0
    ELSE IF Len(noneMatch) > 0
    THEN noneMatch = <<"*">> \/ EtagMatches(noneMatch, tag)
    ELSE FALSE

\* fresh(req.headers, { etag: fileETag })
fresh(reqHeaders, tag, release) ==
    \* unconditional request
    IF Len(reqHeaders.ifModifiedSince) = 0 /\ Len(reqHeaders.ifNoneMatch) = 0 THEN FALSE
    \* always stale under Cache-Control: no-cache
    ELSE IF Len(reqHeaders.cacheControl) > 0 /\ HasNoCache(reqHeaders.cacheControl)
    THEN FALSE
    ELSE FreshValidators(reqHeaders.ifNoneMatch, reqHeaders.ifModifiedSince, tag, release)

(* ------------------------- GET /:storedName --------------------------- *)

VARIABLES
    files,            \* the File collection: shortId or _id -> record
    disk,             \* the paths that exist in the uploads directory
    freshRelease,     \* the installed release of fresh
    req,              \* the request being answered
    res,              \* the response the route produced for it
    streams,          \* client -> its exchange with the route and its read stream
    log,              \* what console.error wrote
    running,          \* the server process is alive
    rateLimits,       \* the Map rateLimits: IP -> {timestamps, blockedUntil}
    uploadSpeedLimit, \* the admin setting: uploads per minute
    techPause,        \* the admin setting: service paused
    upload,           \* what rateLimitMiddleware did with the last upload request
    passed,           \* IP -> the times of the requests passed on in the last minute
    threshold,        \* the timestamps in five minutes above which an IP is blocked
    handlers,         \* client -> the position of its request's handler
    notifications,    \* the Notification collection: _id -> record
    bans,             \* the BannedIP collection: a sequence of records
    localStorage,     \* the browser's localStorage item 'uploadHistory'
    tabs              \* the browser's async functions in flight

getVars == <<files, disk, freshRelease, req, res>>

streamVars == <<streams, log, running>>

rateVars == <<rateLimits, uploadSpeedLimit, techPause, upload, passed, threshold>>

dataVars == <<handlers, notifications, bans, localStorage, tabs>>

\* What the admin routes leave alone.
adminFrame ==
    <<freshRelease, req, res, streamVars, rateLimits, upload, passed, threshold, localStorage,
      tabs>>

\* What checkBanMiddleware leaves alone.
banFrame ==
    <<freshRelease, req, res, streamVars, rateVars, notifications, localStorage, tabs>>

\* What the browser's functions leave alone.
browserFrame ==
    <<disk, freshRelease, req, res, streamVars, rateVars, handlers, notifications, bans>>

\* What the upload and toggle handlers leave alone.
fileFrame ==
    <<freshRelease, req, res, streamVars, rateVars, notifications, bans, localStorage, tabs>>

vars == <<getVars, streamVars, rateVars, dataVars>>

Bytes == <<"b", "y", "t", "e", "s">>

\* The outcome of a route: status, the headers set with res.setHeader, the
\* body handed to res.send / res.end, and the read stream piped into the
\* response (start..end inclusive, and whether an 'error' listener is
\* attached to it).  Headers that Express adds on its own in res.send are
\* not part of it.  The compression middleware (lines 20-45) does not touch
\* a request with a Range header, nor a video, audio or image response, nor
\* a body under 1024 bytes; the responses here are outside its reach.
NoBody == [kind |-> "none"]

TextBody(text) == [kind |-> "text", text |-> text]

FileStream(start, end, handled) ==
    [kind |-> "file", start |-> start, end |-> end, errorHandler |-> handled]

\* res.status(code).send(text) on a response with no header set by the route.
SendText(code, text) == [status |-> code, headers |-> <<>>, body |-> TextBody(text)]

\* return next(): the route leaves the request to the next handler.
PassedOn == [status |-> 0, headers |-> <<>>, body |-> [kind |-> "next"]]

\* Lines 488-499: the headers set for every file.
CachingHeaders(file, mimeType, fileETag) ==
    [ETag |-> fileETag,
     ContentType |-> mimeType,
     ContentDisposition |-> [type |-> "inline", filename |-> file.originalName],
     CacheControl |-> [public |-> TRUE, maxAge |-> CacheMaxAge(mimeType),
                       immutable |-> TRUE]]

\* BaseHeaders without Accept-Ranges.
BaseHeadersNoAcceptRanges(file, mimeType, fileETag, supportsRanges) ==
    CachingHeaders(file, mimeType, fileETag)

\* Lines 488-504: the headers set before any decision is taken.
BaseHeaders(file, mimeType, fileETag, supportsRanges) ==
    IF supportsRanges
    THEN CachingHeaders(file, mimeType, fileETag) @@ [AcceptRanges |-> Bytes]
    ELSE CachingHeaders(file, mimeType, fileETag)

\* Content-Range of a 206: `bytes ${start}-${end}/${stats.size}`.
ContentRange(start, end, size) ==
    Bytes \o <<" ">> \o Dec(start) \o <<"-">> \o Dec(end) \o <<"/">> \o Dec(size)

\* Content-Range of a 416: `bytes */${stats.size}`.
UnsatisfiedRange(size) == Bytes \o <<" ", "*", "/">> \o Dec(size)

\* PartialContent streaming the whole file whatever the window.
PartialContentUnbounded(size, headers, start, end) ==
    [status |-> 206,
     headers |-> headers @@
         [ContentRange |-> ContentRange(start, end, size),
          ContentLength |-> (end - start) + 1],
     body |-> FileStream(0, size - 1, TRUE)]

\* PartialContent with the chunk size one short.
PartialContentShort(size, headers, start, end) ==
    [status |-> 206,
     headers |-> headers @@
         [ContentRange |-> ContentRange(start, end, size),
          ContentLength |-> end - start],
     body |-> FileStream(start, end, TRUE)]

\* Lines 530-547: the valid range request.
PartialContent(size, headers, start, end) ==
    [status |-> 206,
     headers |-> headers @@
         [ContentRange |-> ContentRange(start, end, size),
          ContentLength |-> (end - start) + 1],
     body |-> FileStream(start, end, TRUE)]

\* Lines 550-561: the full file, with an 'error' listener on the stream.
FullContent(size, headers) ==
    [status |-> 200,
     headers |-> headers @@ [ContentLength |-> size],
     body |-> FileStream(0, size - 1, TRUE)]

\* RangeDecision serving the whole file when no range is satisfiable.
RangeDecisionLenient(size, headers, ranges) ==
    IF ranges.code = -1 \/ ranges.code = -2
    THEN [status |-> 200,
          headers |-> headers @@ [ContentLength |-> size],
          body |-> FileStream(0, size - 1, FALSE)]
    ELSE PartialContent(size, headers, ranges.ranges[1].start, ranges.ranges[1].end)

\* RangeDecision answering 416 for a header without '=' as well.
RangeDecisionStrict(size, headers, ranges) ==
    IF ranges.code = -1 \/ ranges.code = -2
    THEN [status |-> 416,
          headers |-> headers @@ [ContentRange |-> UnsatisfiedRange(size)],
          body |-> TextBody("Range Not Satisfiable")]
    ELSE PartialContent(size, headers, ranges.ranges[1].start, ranges.ranges[1].end)

\* The call without the combine option.
ParseRangeUncombined(size, range) == rangeParser(size, range, [combine |-> FALSE])

\* Line 516: rangeParser(stats.size, range, { combine: true })
ParseRange(size, range) == rangeParser(size, range, [combine |-> TRUE])

\* Lines 518-547: the response by the value rangeParser returned.
RangeDecision(size, headers, ranges) ==
    IF ranges.code = -1
    THEN [status |-> 416,
          headers |-> headers @@ [ContentRange |-> UnsatisfiedRange(size)],
          body |-> TextBody("Range Not Satisfiable")]
    ELSE IF ranges.code = -2
    THEN [status |-> 200,
          headers |-> headers @@ [ContentLength |-> size],
          body |-> FileStream(0, size - 1, FALSE)]
    ELSE PartialContent(size, headers, ranges.ranges[1].start, ranges.ranges[1].end)

\* RangeResponse taking the Range header for every content type.
RangeResponseAnyType(size, headers, range, supportsRanges) ==
    IF Len(range) > 0
    THEN RangeDecision(size, headers, ParseRange(size, range))
    ELSE FullContent(size, headers)

\* Lines 511-562: the response once the freshness check has failed.
RangeResponse(size, headers, range, supportsRanges) ==
    IF Len(range) > 0 /\ supportsRanges
    THEN RangeDecision(size, headers, ParseRange(size, range))
    ELSE FullContent(size, headers)

\* Respond with the Range header handled before the freshness check.
RespondRangeFirst(size, headers, fileETag, supportsRanges, reqHeaders, release) ==
    IF Len(reqHeaders.range) > 0 /\ supportsRanges
    THEN RangeDecision(size, headers, ParseRange(size, reqHeaders.range))
    ELSE IF fresh(reqHeaders, fileETag, release)
    THEN [status |-> 304, headers |-> headers, body |-> NoBody]
    ELSE FullContent(size, headers)

\* Lines 506-562: the freshness check, then the rest.
Respond(size, headers, fileETag, supportsRanges, reqHeaders, release) ==
    IF fresh(reqHeaders, fileETag, release)
    THEN [status |-> 304, headers |-> headers, body |-> NoBody]
    ELSE RangeResponse(size, headers, reqHeaders.range, supportsRanges)

ServeWith(file, mimeType, fileETag, supportsRanges, reqHeaders, release) ==
    Respond(file.size, BaseHeaders(file, mimeType, fileETag, supportsRanges),
            fileETag, supportsRanges, reqHeaders, release)

ServeAs(file, mimeType, reqHeaders, release) ==
    ServeWith(file, mimeType, etag([size |-> file.size, mtime |-> file.mtime]),
              supportsRangeRequests(mimeType), reqHeaders, release)

\* Lines 480-562: the response for a file that is in the collection and on
\* disk.  stats is fs.statSync(filePath): the file's size and mtime.
ServeFile(file, reqHeaders, release) ==
    ServeAs(file, getOptimizedMimeType(file.originalName.ext), reqHeaders, release)

\* storedName.toLowerCase(), on the names requested.
LowerName(name) == IF name = "Admin" THEN "admin" ELSE name

\* Lines 460-478 and then ServeFile: the whole route.  storedName is
\* <base><ext>; shortId is path.basename(storedName, path.extname(storedName)).
GetStoredName(r) ==
    IF r.ext = "" /\ LowerName(r.base) = "admin" THEN PassedOn
    ELSE IF r.base \notin DOMAIN files
    THEN SendText(404, "File not found")
    ELSE IF files[r.base].path \notin disk
    THEN SendText(404, "File not found on disk")
    ELSE ServeFile(files[r.base], r.headers, freshRelease)

(* ------------------------------ requests ------------------------------ *)

\* What a client asks for in its Range header, before it is written out:
\* nothing, a unit with a list of elements, or a text without '='.  An
\* element is first-last, first- (to the end), -length (the last bytes),
\* or a text that is no byte-range-spec.  The request carries it next to
\* the header text so that properties can speak of the ranges asked for;
\* the route reads the header text alone.
NoRange == [kind |-> "none"]

RangeList(unit, items) == [kind |-> "list", unit |-> unit, items |-> items]

RawRange(text) == [kind |-> "raw", text |-> text]

Closed(a, b) == [form |-> "closed", first |-> a, last |-> b]

Open(a) == [form |-> "open", first |-> a]

Suffix(n) == [form |-> "suffix", length |-> n]

Odd(text) == [form |-> "odd", text |-> text]

\* The element as the client writes it.
RenderItem(item) ==
    CASE item.form = "closed" -> Dec(item.first) \o <<"-">> \o Dec(item.last)
      [] item.form = "open" -> Dec(item.first) \o <<"-">>
      [] item.form = "suffix" -> <<"-">> \o Dec(item.length)
      [] OTHER -> item.text

RenderItems(items) == [i \in 1..Len(items) |-> RenderItem(items[i])]

\* The Range header as the client writes it.
RenderRange(asked) ==
    CASE asked.kind = "none" -> <<>>
      [] asked.kind = "raw" -> asked.text
      [] OTHER -> asked.unit \o <<"=">> \o Join(RenderItems(asked.items), <<",">>)

\* The byte positions and lengths written in Range headers: up to one past
\* the largest file size.
Nums == 0..(MaxSize + 1)

\* Elements that are no byte-range-spec: empty, letters, a lone dash, a
\* second dash, a blank before the number.
OddItems ==
    {Odd(<<>>), Odd(<<"a", "b", "c">>), Odd(<<"-">>), Odd(<<"0", "-", "1", "-", "2">>),
     Odd(<<" ", "0", "-", "0">>)}

\* The elements of single-range headers; 10 is a two-digit position past
\* every file.
RangeItems ==
    {Closed(a, b) : a \in Nums, b \in Nums \cup {10}}
        \cup {Open(a) : a \in Nums \cup {10}}
        \cup {Suffix(n) : n \in Nums \cup {10}}
        \cup OddItems

Items == <<"i", "t", "e", "m", "s">>

Units == {Bytes, Items}

\* Range headers with one element after '<unit>=', and headers without '='.
SingleRanges == {RangeList(u, <<item>>) : u \in Units, item \in RangeItems}

NoEqualsRanges ==
    {RawRange(Bytes), RawRange(Bytes \o <<" ", "0", "-", "1">>), RawRange(<<"0", "-", "1">>)}

\* The elements of the multi-range headers: every first-last with
\* first <= last inside the largest file, an open-ended and a suffix range,
\* and one range starting past every file.
ListItems ==
    {Closed(p[1], p[2]) : p \in {q \in (0..MaxSize) \X (0..MaxSize) : q[1] <= q[2]}}
        \cup {Open(1), Suffix(1), Open(MaxSize + 1)}

MultiRanges ==
    UNION {{RangeList(Bytes, items) : items \in [1..n -> ListItems]} : n \in 2..MaxRanges}

\* If-None-Match values for a file whose ETag is tag and whose ETag at
\* another modification time is other: absent, the tag, the tag without its
\* weak prefix, '*', a stale tag, a list holding the tag, a list of stale
\* tags, the tag with a second weak prefix, and a text that is no tag.
NoneMatchValues(tag, other) ==
    {<<>>, tag, SubSeq(tag, 3, Len(tag)), <<"*">>, other,
     other \o <<",", " ">> \o tag, other \o <<",">> \o SubSeq(other, 3, Len(other)),
     <<"W", "/">> \o tag, <<"x", ",", ",">>}

MaxAge0 == <<"m", "a", "x", "-", "a", "g", "e", "=", "0">>

CacheControlValues == {<<>>, NoCache, MaxAge0, MaxAge0 \o <<",", " ">> \o NoCache}

ModifiedSinceValues == {<<>>, <<"S", "a", "t">>}

Headers(asked, noneMatch, cacheControl, modifiedSince) ==
    [range |-> RenderRange(asked), ifNoneMatch |-> noneMatch,
     cacheControl |-> cacheControl, ifModifiedSince |-> modifiedSince]

Request(base, ext, asked, headers) ==
    [base |-> base, ext |-> ext, asked |-> asked, headers |-> headers]

NoRequest == Request("", "", NoRange, Headers(NoRange, <<>>, <<>>, <<>>))

NoResponse == [status |-> 0, headers |-> <<>>, body |-> NoBody]

(* ------------------------- streams and uploads ------------------------ *)

\* The clients that hold a connection to the server.
Clients == {"c1", "c2"}

\* A client's exchange with GET /:storedName.  req is the request and res
\* what the route decided for it; statusCode is res.statusCode; heads are
\* the status lines written to the socket; got are the file positions
\* whose bytes were written to it; text is the body res.send wrote.  fd is
\* the descriptor of the read stream ("none" before one is opened), pos
\* the position of its next read, piped whether it is piped into the
\* response, failed whether it emitted 'error', and failedLate whether
\* that was after the head was written.  socket is the client's
\* connection and finished whether the response was ended.
NoConnection ==
    [req |-> NoRequest, res |-> NoResponse, statusCode |-> 0, headersSent |-> FALSE,
     heads |-> <<>>, got |-> <<>>, text |-> "", fd |-> "none", pos |-> 0,
     piped |-> FALSE, failed |-> FALSE, failedLate |-> FALSE,
     socket |-> "open", finished |-> FALSE]

\* No client has sent a request.
NoStreams ==
    /\ streams = [c \in Clients |-> NoConnection]
    /\ log = <<>>
    /\ running = TRUE

\* Times are measured from the present instant, in ticks of 30 seconds:
\* Date.now() is 0, a timestamp taken k ticks ago is -k and a block that
\* ends in k ticks has blockedUntil = k.  The middleware looks at times
\* only through their difference to now, so the choice of origin changes
\* nothing it computes.
now == 0

\* entry.blockedUntil of an entry that was never blocked: null, a value
\* apart from every time a block ends at.
Null == -1

NoUpload == [ip |-> "", status |-> 0, error |-> "none"]

\* The number of timestamps in five minutes above which the IP is
\* blocked: 100 in the code, scaled down.
BlockThreshold == 2

\* Lines 52-53 and 220: the settings and the empty Map at start.
NoUploads ==
    /\ rateLimits = <<>>
    /\ uploadSpeedLimit = 10
    /\ techPause = FALSE
    /\ upload = NoUpload
    /\ passed = <<>>
    /\ threshold = BlockThreshold

\* A handler that is not running; status is that of its last response.
\* header and body are the pins of an admin request, ip and file the
\* sender of an upload and whether it carries a file.
NoHandler ==
    [pc |-> "idle", route |-> "", shortId |-> <<>>, random |-> FALSE,
     sessionKey |-> "", isPublic |-> FALSE, id |-> 0, status |-> 0,
     header |-> "", body |-> "", active |-> FALSE, ip |-> "", file |-> FALSE]

\* No request is being handled, nothing is stored but the files.
NoData ==
    /\ handlers = [c \in Clients |-> NoHandler]
    /\ notifications = <<>>
    /\ bans = <<>>
    /\ localStorage = <<>>
    /\ tabs = <<>>

(* ------------------------------ the server ---------------------------- *)

\* The File record behind the short id "abc".
StoredFiles ==
    [shortId : {"abc"},
     originalName : [base : {"clip"}, ext : Extensions],
     path : {"uploads/abc"},
     size : 0..MaxSize,
     mtime : {26}]

\* The collection holds one file; its bytes are on disk or were removed.
Init ==
    /\ files \in {[id \in {"abc"} |-> f] : f \in StoredFiles}
    /\ disk \in {{"uploads/abc"}, {}}
    /\ freshRelease \in FreshReleases
    /\ req = NoRequest
    /\ res = NoResponse
    /\ NoStreams
    /\ NoUploads
    /\ NoData

\* The route answers r.
Answer(r) ==
    /\ req' = r
    /\ res' = GetStoredName(r)
    /\ UNCHANGED <<files, disk, freshRelease, streamVars, rateVars, dataVars>>

\* The route runs for one request at a time in this model: a request is
\* taken when the previous exchange is over.
Idle == req = NoRequest

TheFile == files["abc"]

OnDisk == TheFile.path \in disk

TheETag == etag([size |-> TheFile.size, mtime |-> TheFile.mtime])

StaleETag == etag([size |-> TheFile.size, mtime |-> 27])

\* A request without Range or validators, for any name: the stored file
\* (with or without an extension), an unknown short id, the admin path.
PlainGet ==
    /\ Idle
    /\ \E base \in {"abc", "nope", "admin", "Admin"}, ext \in {"", ".mp4"} :
            Answer(Request(base, ext, NoRange, Headers(NoRange, <<>>, <<>>, <<>>)))

\* A conditional request for the stored file, alone or with a Range header
\* that is satisfiable, unsatisfiable or without '='.
ConditionalGet ==
    /\ Idle
    /\ OnDisk
    /\ \E asked \in {NoRange, RangeList(Bytes, <<Closed(0, 0)>>),
                     RangeList(Bytes, <<Open(MaxSize + 1)>>), RawRange(Bytes)},
          inm \in NoneMatchValues(TheETag, StaleETag),
          cc \in CacheControlValues,
          ims \in ModifiedSinceValues :
            Answer(Request("abc", ".mp4", asked, Headers(asked, inm, cc, ims)))

\* A request for the stored file with a Range header of one element or
\* without '=', with no validator or with the current ETag.
RangeGet ==
    /\ Idle
    /\ OnDisk
    /\ \E asked \in SingleRanges \cup NoEqualsRanges, inm \in {<<>>, TheETag} :
            Answer(Request("abc", ".mp4", asked, Headers(asked, inm, <<>>, <<>>)))

\* A request for a stored video with a Range header listing several ranges.
MultiRangeGet ==
    /\ Idle
    /\ OnDisk
    /\ TheFile.originalName.ext = ".mp4"
    /\ \E asked \in MultiRanges :
            Answer(Request("abc", ".mp4", asked, Headers(asked, <<>>, <<>>, <<>>)))

\* The exchange is over: the response was written and the connection is
\* ready for the next request.
Finish ==
    /\ ~Idle
    /\ req' = NoRequest
    /\ res' = NoResponse
    /\ UNCHANGED <<files, disk, freshRelease, streamVars, rateVars, dataVars>>

Next == PlainGet \/ ConditionalGet \/ RangeGet \/ MultiRangeGet \/ Finish

Spec == Init /\ [][Next]_vars

(* ------------------- GET /:storedName: the streams -------------------- *)

\* Lines 527, 538-539 and 552-553: fs.createReadStream(...).pipe(res).  The
\* stream is open at the start of its window and nothing is written yet.
Piping(r, out) ==
    [NoConnection EXCEPT !.req = r, !.res = out, !.statusCode = out.status,
                         !.fd = "open", !.pos = out.body.start, !.piped = TRUE]

\* res.status(...).send(...) and res.status(304).end(): head and body are
\* written and the response is ended.
Sent(r, out) ==
    [NoConnection EXCEPT !.req = r, !.res = out, !.statusCode = out.status,
                         !.headersSent = TRUE, !.heads = <<out.status>>,
                         !.text = IF out.body.kind = "text" THEN out.body.text ELSE "",
                         !.finished = TRUE]

\* The exchange as the route leaves it when it returns.
Handled(r, out) ==
    IF out.body.kind = "file" THEN Piping(r, out) ELSE Sent(r, out)

\* The head goes out with the first write to the response.
WriteHead(conn) ==
    IF conn.headersSent THEN conn.heads ELSE Append(conn.heads, conn.statusCode)

\* ReadAt with one file cursor shared by all the streams: the position of
\* the stream that is furthest.
ReadAtShared(c, conns) ==
    CHOOSE p \in {conns[d].pos : d \in Clients} :
        \A d \in Clients : conns[d].pos <= p

\* The position a stream reads at: its own.  Every createReadStream call
\* opens a descriptor of its own and reads at positions it keeps itself.
ReadAt(c, conns) == conns[c].pos

\* The pipe copies one chunk, here one byte, from the stream to the
\* response.
Copied(conn, position) ==
    [conn EXCEPT !.headersSent = TRUE, !.heads = WriteHead(conn),
                 !.got = Append(@, position), !.pos = @ + 1]

\* The stream reached the end of its window: 'end' closes the descriptor
\* (autoClose) and the pipe ends the response.
Ended(conn) ==
    [conn EXCEPT !.headersSent = TRUE, !.heads = WriteHead(conn),
                 !.fd = "closed", !.piped = FALSE, !.finished = TRUE]

\* The text the listeners send with 500: lines 544 and 558.
ErrorText(conn) ==
    IF conn.res.status = 206 THEN "Error streaming file" ELSE "Error serving file"

\* The listener sending 500 whether or not the head was written.
OnStreamErrorAlways(conn) ==
    [conn EXCEPT !.statusCode = 500, !.headersSent = TRUE,
                 !.heads = Append(@, 500), !.text = ErrorText(conn),
                 !.finished = TRUE]

\* Lines 541-546 and 555-560: the 'error' listener, after console.error.
OnStreamError(conn) ==
    IF ~conn.headersSent
    THEN [conn EXCEPT !.statusCode = 500, !.headersSent = TRUE,
                      !.heads = Append(@, 500), !.text = ErrorText(conn),
                      !.finished = TRUE]
    ELSE conn

\* The stream emitted 'error': it is destroyed, which closes its
\* descriptor and takes it off the pipe.
Errored(conn) ==
    [conn EXCEPT !.fd = "closed", !.piped = FALSE, !.failed = TRUE,
                 !.failedLate = conn.headersSent]

\* The process ended: its sockets and descriptors are closed.
Killed(conn) ==
    [conn EXCEPT !.fd = IF @ = "open" THEN "closed" ELSE @, !.piped = FALSE,
                 !.socket = "closed"]

StreamError(c) == [message |-> "Stream error:", client |-> c]

\* The requests the clients send for the stored file: none, a satisfiable
\* range, the range to the end, an unsatisfiable one, a header without
\* '=', and the current ETag.
StreamRequests ==
    {Request("abc", ".mp4", asked, Headers(asked, <<>>, <<>>, <<>>)) :
        asked \in {NoRange, RangeList(Bytes, <<Closed(1, MaxSize - 1)>>),
                   RangeList(Bytes, <<Open(0)>>),
                   RangeList(Bytes, <<Open(MaxSize + 1)>>), RawRange(Bytes)}}
      \cup {Request("abc", ".mp4", NoRange,
                    Headers(NoRange, etag([size |-> MaxSize, mtime |-> 26]), <<>>, <<>>))}

\* A stored video or text file, empty or of the largest size, on disk.
StreamInit ==
    /\ files \in {[id \in {"abc"} |-> f] :
                    f \in {g \in StoredFiles : /\ g.originalName.ext \in {".mp4", ".txt"}
                                              /\ g.size \in {0, MaxSize}}}
    /\ disk = {"uploads/abc"}
    /\ freshRelease = "1.0"
    /\ req = NoRequest
    /\ res = NoResponse
    /\ NoStreams
    /\ NoUploads
    /\ NoData

\* The route runs for a request of client c, up to its return.
Get(c) ==
    /\ running
    /\ streams[c].req = NoRequest
    /\ streams[c].socket = "open"
    /\ \E r \in StreamRequests :
            streams' = [streams EXCEPT ![c] = Handled(r, GetStoredName(r))]
    /\ UNCHANGED <<getVars, log, running, rateVars, dataVars>>

\* 'data': the next chunk of c's stream is written to its response.
Copy(c) ==
    /\ running
    /\ streams[c].fd = "open"
    /\ streams[c].piped
    /\ streams[c].pos <= streams[c].res.body.end
    /\ streams' = [streams EXCEPT ![c] = Copied(streams[c], ReadAt(c, streams))]
    /\ UNCHANGED <<getVars, log, running, rateVars, dataVars>>

\* 'end': c's stream delivered its window.
End(c) ==
    /\ running
    /\ streams[c].fd = "open"
    /\ streams[c].piped
    /\ streams[c].pos > streams[c].res.body.end
    /\ streams' = [streams EXCEPT ![c] = Ended(streams[c])]
    /\ UNCHANGED <<getVars, log, running, rateVars, dataVars>>

\* 'error' on a stream with the route's listener: the failure is logged
\* and the listener runs.  The file cannot be opened, or a read fails.
Fail(c) ==
    /\ running
    /\ streams[c].fd = "open"
    /\ streams[c].res.body.errorHandler
    /\ streams' = [streams EXCEPT ![c] = OnStreamError(Errored(streams[c]))]
    /\ log' = Append(log, StreamError(c))
    /\ UNCHANGED <<getVars, running, rateVars, dataVars>>

\* 'error' on a stream without a listener (line 527): the event is thrown
\* as an uncaught exception, which ends the process.
FailUnhandled(c) ==
    /\ running
    /\ streams[c].fd = "open"
    /\ ~streams[c].res.body.errorHandler
    /\ streams' = [d \in Clients |->
                      Killed(IF d = c THEN Errored(streams[d]) ELSE streams[d])]
    /\ running' = FALSE
    /\ UNCHANGED <<getVars, log, rateVars, dataVars>>

\* The client closes its connection before the response is complete:
\* 'close' on the response takes the stream off the pipe, and nothing
\* else.
Disconnect(c) ==
    /\ running
    /\ streams[c].req # NoRequest
    /\ streams[c].socket = "open"
    /\ ~streams[c].finished
    /\ streams' = [streams EXCEPT ![c].socket = "closed", ![c].piped = FALSE]
    /\ UNCHANGED <<getVars, log, running, rateVars, dataVars>>

StreamNext ==
    \E c \in Clients :
        Get(c) \/ Copy(c) \/ End(c) \/ Fail(c) \/ FailUnhandled(c) \/ Disconnect(c)

StreamSpec == StreamInit /\ [][StreamNext]_vars

\* The event loop runs the callbacks that are ready: a piped stream goes
\* on to deliver its chunks and its end.  Failures and disconnections are
\* up to the disk and the clients.
StreamFairSpec ==
    StreamSpec /\ \A c \in Clients : WF_vars(Copy(c)) /\ WF_vars(End(c))

(* ------------------------ rateLimitMiddleware ------------------------- *)

\* 60 * 1000 ms, in ticks.
Minute == 2

\* 5 * 60 * 1000 ms.
FiveMinutes == 5 * Minute

\* The length of the block, 24 * 60 * 60 * 1000 ms in the code, scaled
\* down to just over the five-minute window.
Day == FiveMinutes + Minute

\* The largest limit the admin sets.
MaxLimit == 2

\* The threshold of line 246 scaled to the five minutes of the window.
QuietThreshold == 5

\* The largest limit that is a fifth of that threshold, as 20 is of 100.
QuietLimit == QuietThreshold \div (FiveMinutes \div Minute)

\* The client whose uploads are followed, and another one that uploads
\* now and then.
IPs == {"10.0.0.1", "10.0.0.2"}

\* rateLimits.get(ip) || { timestamps: [], blockedUntil: null }
EntryOf(limits, ip) ==
    IF ip \in DOMAIN limits THEN limits[ip]
    ELSE [timestamps |-> <<>>, blockedUntil |-> Null]

\* rateLimits.set(ip, entry)
Put(limits, ip, entry) ==
    [x \in DOMAIN limits \cup {ip} |-> IF x = ip THEN entry ELSE limits[x]]

\* timestamps.filter(ts => ts > since)
Since(timestamps, since) == SelectSeq(timestamps, LAMBDA ts : ts > since)

\* What the middleware did: answered with a status and an error, or
\* called next() (status 0).
Outcome(ip, status, error) == [ip |-> ip, status |-> status, error |-> error]

Result(limits, ip, entry, out) ==
    [rateLimits |-> Put(limits, ip, entry), upload |-> out]

\* ThresholdExceeded blocking one timestamp later.
ThresholdExceededLate(timestamps) == Len(timestamps) > threshold + 1

\* Line 246: entry.timestamps.length > 100
ThresholdExceeded(timestamps) == Len(timestamps) > threshold

\* Lines 245-250: after the push.
Pushed(limits, ip, entry, t) ==
    IF ThresholdExceeded(entry.timestamps)
    THEN Result(limits, ip, [entry EXCEPT !.blockedUntil = t + Day],
                Outcome(ip, 429, "Too many uploads - blocked for 24 hours"))
    ELSE Result(limits, ip, entry, Outcome(ip, 0, ""))

\* LimitReached letting one more request through.
LimitReachedLate(count1, limit) == count1 > limit

\* Line 241: count1 >= uploadSpeedLimit
LimitReached(count1, limit) == count1 >= limit

\* Lines 238-250: after the old timestamps were dropped.
Cleaned(limits, ip, entry, t, limit) ==
    IF LimitReached(Len(Since(entry.timestamps, t - Minute)), limit)
    THEN Result(limits, ip, entry, Outcome(ip, 429, "Upload limit exceeded"))
    ELSE Pushed(limits, ip, [entry EXCEPT !.timestamps = Append(@, t)], t)

\* Lines 230-250: the entry is in the Map.
Checked(limits, ip, entry, t, limit) ==
    IF entry.blockedUntil # Null /\ t < entry.blockedUntil
    THEN Result(limits, ip, entry, Outcome(ip, 429, "Too many uploads - try again later"))
    ELSE Cleaned(limits, ip,
                 [entry EXCEPT !.timestamps = Since(@, t - FiveMinutes)], t, limit)

\* Lines 222-251.
rateLimitMiddleware(limits, ip, t, limit, pause) ==
    IF pause
    THEN [rateLimits |-> limits,
          upload |-> Outcome(ip, 503, "Service temporarily paused by admin")]
    ELSE Checked(limits, ip, EntryOf(limits, ip), t, limit)

\* The times of the requests of ip that were passed on.
PassedOf(ip) == IF ip \in DOMAIN passed THEN passed[ip] ELSE <<>>

\* The requests passed on in the minute up to now, the one just passed on
\* included.
PassedOn1(out) ==
    IF out.status = 0
    THEN Put(passed, out.ip, Append(Since(PassedOf(out.ip), now - Minute), now))
    ELSE passed

Applied(r) ==
    /\ rateLimits' = r.rateLimits
    /\ upload' = r.upload
    /\ passed' = PassedOn1(r.upload)

\* No file was uploaded yet, the settings are those of lines 52-53.
RateInit ==
    /\ files = <<>>
    /\ disk = {}
    /\ freshRelease = "1.0"
    /\ req = NoRequest
    /\ res = NoResponse
    /\ NoStreams
    /\ NoUploads
    /\ NoData

\* POST /upload from ip reaches the middleware.  The second client sends
\* a request when none of its earlier ones is on record.
Upload ==
    /\ \E ip \in IPs :
            /\ ip = "10.0.0.2" => EntryOf(rateLimits, ip).timestamps = <<>>
            /\ Applied(rateLimitMiddleware(rateLimits, ip, now, uploadSpeedLimit, techPause))
    /\ UNCHANGED <<getVars, streamVars, uploadSpeedLimit, techPause, threshold, dataVars>>

\* A time one tick later, seen from the new present: one tick further
\* back.  Timestamps are followed until they are five minutes old, when
\* every filter drops them, and blocks until they have ended.
Older(time, oldest) == IF time > oldest THEN time - 1 ELSE time

OlderAll(times, oldest) == [i \in 1..Len(times) |-> Older(times[i], oldest)]

OlderEntry(entry) ==
    [timestamps |-> OlderAll(entry.timestamps, now - FiveMinutes),
     blockedUntil |-> IF entry.blockedUntil = Null THEN Null
                      ELSE Older(entry.blockedUntil, now)]

\* A tick passes; the exchange with the last client is over.
Tick ==
    /\ rateLimits' = [ip \in DOMAIN rateLimits |-> OlderEntry(rateLimits[ip])]
    /\ passed' = [ip \in DOMAIN passed |-> OlderAll(passed[ip], now - Minute)]
    /\ upload' = NoUpload
    /\ UNCHANGED <<getVars, streamVars, uploadSpeedLimit, techPause, threshold, dataVars>>

\* POST /api/admin/settings with a number as newLimit (line 646).  The
\* passes counted for the previous limit are forgotten.
SetLimit ==
    /\ \E newLimit \in 1..MaxLimit :
            /\ uploadSpeedLimit' = newLimit
            /\ passed' = IF newLimit = uploadSpeedLimit THEN passed ELSE <<>>
    /\ UNCHANGED <<getVars, streamVars, rateLimits, techPause, upload, threshold, dataVars>>

\* POST /api/admin/settings with a boolean as pause (line 647).
SetPause ==
    /\ \E pause \in BOOLEAN : techPause' = pause
    /\ UNCHANGED <<getVars, streamVars, rateLimits, uploadSpeedLimit, upload, passed, threshold,
                   dataVars>>

RateNext == Upload \/ Tick \/ SetLimit \/ SetPause

RateSpec == RateInit /\ [][RateNext]_vars

\* No file was uploaded yet; the limit is at most a fifth of the
\* threshold, where the code has the limit 10 of line 52, at most 20, and
\* the threshold 100.
QuietInit ==
    /\ files = <<>>
    /\ disk = {}
    /\ freshRelease = "1.0"
    /\ req = NoRequest
    /\ res = NoResponse
    /\ NoStreams
    /\ rateLimits = <<>>
    /\ uploadSpeedLimit \in 1..QuietLimit
    /\ techPause = FALSE
    /\ upload = NoUpload
    /\ passed = <<>>
    /\ threshold = QuietThreshold
    /\ NoData

\* Uploads while the limit stays as it is.
QuietNext == Upload \/ Tick \/ SetPause

QuietSpec == QuietInit /\ [][QuietNext]_vars

(* ------------------- POST /upload, /api/toggle-public ----------------- *)

\* In the specifications below the File collection is keyed by _id, the
\* position at which a document was inserted, and a document is
\* {shortId, sessionKey, isPublic}; storedName is shortId followed by the
\* extension of the original name, which is empty for the names uploaded
\* here, and disk holds the stored names.

\* The documents one specification follows.
MaxFiles == 2

\* String.prototype.toLowerCase and the class [^a-z0-9] of lines 360 and
\* 384, on the characters of CustomNames: a character that is not a
\* lower-case letter or a digit after lower-casing becomes a hyphen.
Hyphenated(c) ==
    IF c = "A" THEN "a"
    ELSE IF c \in {"a", "d", "m", "i", "n"} \/ IsDigit(c) THEN c
    ELSE "-"

\* .replace(/-+/g, '-'): a run of hyphens becomes one hyphen.
RECURSIVE Squeezed(_)
Squeezed(s) ==
    IF Len(s) < 2 THEN s
    ELSE IF s[1] = "-" /\ s[2] = "-" THEN Squeezed(Tail(s))
    ELSE <<s[1]>> \o Squeezed(Tail(s))

\* .replace(/^-|-$/g, ''): a hyphen at the start and one at the end go.
Bare(s) ==
    IF s = <<"-">> THEN <<>>
    ELSE SubSeq(s, IF Len(s) > 0 /\ s[1] = "-" THEN 2 ELSE 1,
                   IF Len(s) > 0 /\ s[Len(s)] = "-" THEN Len(s) - 1 ELSE Len(s))

\* Lines 359-360 and 382-386: the URL-safe form of a custom filename.
Sanitized(customFilename) ==
    Bare(Squeezed([i \in 1..Len(customFilename) |-> Hyphenated(customFilename[i])]))

\* crypto.randomBytes(n).toString('hex'): 2n hexadecimal digits.  Of the
\* generator's outcomes the model follows those that repeat one digit.
RandomHex(n) == {[i \in 1..(2 * n) |-> h] : h \in {"7", "e"}}

\* File.findOne({ shortId }): the first document with the short id, <<>>
\* (null) when there is none.
FindOne(shortId) ==
    IF \E i \in DOMAIN files : files[i].shortId = shortId
    THEN <<CHOOSE i \in DOMAIN files :
                /\ files[i].shortId = shortId
                /\ \A j \in 1..(i - 1) : files[j].shortId # shortId>>
    ELSE <<>>

\* res.status(code).json(...): the handler of c returns.
Returned(c, code) ==
    handlers' = [handlers EXCEPT ![c] = [NoHandler EXCEPT !.status = code]]

\* The handler of c goes on at an await.
Awaiting(c, h) == handlers' = [handlers EXCEPT ![c] = h]

\* Lines 374-406 up to the first await: the short id is the sanitized
\* custom name, looked up next (line 394), or random digits when the name
\* is empty after sanitization (line 391, not looked up), or random digits
\* looked up next when there is no custom name (lines 402-403).
Named(h, customFilename, digits3) ==
    IF Len(customFilename) > 0
    THEN IF Sanitized(Trim(customFilename)) = <<>>
         THEN [h EXCEPT !.pc = "rename", !.shortId = digits3]
         ELSE [h EXCEPT !.pc = "findOne", !.shortId = Sanitized(Trim(customFilename))]
    ELSE [h EXCEPT !.pc = "findOne", !.shortId = digits3, !.random = TRUE]

\* Lines 331-373: a request with a file within the size limit came past
\* the two middlewares and multer; a reserved custom name is refused.
PostUpload(c, customFilename, isPublic, digits3) ==
    IF Len(customFilename) > 0 /\ Sanitized(customFilename) = <<"a", "d", "m", "i", "n">>
    THEN Returned(c, 400)
    ELSE Awaiting(c, Named([NoHandler EXCEPT !.route = "upload", !.sessionKey = c,
                                             !.isPublic = isPublic],
                           customFilename, digits3))

\* Lines 394-398 and 401-404 after File.findOne answered: a custom name
\* that is taken gets '-' and random digits appended and is not looked up
\* again; a random id that is taken is drawn and looked up again.
Looked(h, digits2, digits3) ==
    IF FindOne(h.shortId) = <<>> THEN [h EXCEPT !.pc = "rename"]
    ELSE IF h.random THEN [h EXCEPT !.shortId = digits3]
    ELSE [h EXCEPT !.pc = "rename", !.shortId = h.shortId \o <<"-">> \o digits2]

\* The custom filenames sent: none, two that sanitize to 'a', one that is
\* empty after sanitization, one that looks like a name with appended
\* digits, and the reserved name.
CustomNames ==
    {<<>>, <<"a">>, <<" ", "A", "!", "!">>, <<"!">>, <<"a", "-", "7", "7", "7", "7">>,
     <<"A", "d", "m", "i", "n">>}

\* The short ids asked for: of an uploaded file, and of none.
ToggleIds == {<<"a">>, <<"z">>}

\* The client c sends POST /upload with a file, to be private (isPublic is
\* not 'true'); its session key is its name.
Post(c) ==
    /\ handlers[c].pc = "idle"
    /\ Len(files) + Cardinality({d \in Clients : handlers[d].route = "upload"}) < MaxFiles
    /\ \E customFilename \in CustomNames, digits3 \in RandomHex(3) :
            PostUpload(c, customFilename, FALSE, digits3)
    /\ UNCHANGED <<files, disk, fileFrame>>

\* File.findOne answers the upload of c.
Find(c) ==
    /\ handlers[c].pc = "findOne" /\ handlers[c].route = "upload"
    /\ \E digits2 \in RandomHex(2), digits3 \in RandomHex(3) :
            Awaiting(c, Looked(handlers[c], digits2, digits3))
    /\ UNCHANGED <<files, disk, fileFrame>>

\* Lines 408-416: fs.promises.rename moved the upload to its stored name.
Rename(c) ==
    /\ handlers[c].pc = "rename"
    /\ disk' = disk \cup {handlers[c].shortId}
    /\ Awaiting(c, [handlers[c] EXCEPT !.pc = "save"])
    /\ UNCHANGED <<files, fileFrame>>

\* Lines 418-433: the document is saved and the link is returned.
Save(c) ==
    /\ handlers[c].pc = "save" /\ handlers[c].route = "upload"
    /\ files' = Append(files, [shortId |-> handlers[c].shortId,
                               sessionKey |-> handlers[c].sessionKey,
                               isPublic |-> handlers[c].isPublic])
    /\ Returned(c, 200)
    /\ UNCHANGED <<disk, fileFrame>>

\* Lines 301-302: POST /api/toggle-public from c; File.findOne is awaited.
Toggle(c) ==
    /\ handlers[c].pc = "idle"
    /\ \E shortId \in ToggleIds, sessionKey \in Clients \cup {""} :
            Awaiting(c, [NoHandler EXCEPT !.pc = "findOne", !.route = "toggle",
                                          !.shortId = shortId, !.sessionKey = sessionKey])
    /\ UNCHANGED <<files, disk, fileFrame>>

\* Line 311, always true: the mistake the check of the key guards against.
KeyMismatchNever(file, sessionKey) == FALSE

\* Line 311: file.sessionKey !== sessionKey.
KeyMismatch(file, sessionKey) == file.sessionKey # sessionKey

\* Lines 306-316 after File.findOne answered with the document found:
\* 404, 403, or the flag is flipped on the document in memory and
\* file.save() is awaited.
Toggled(c, found) ==
    IF found = <<>> THEN Returned(c, 404)
    ELSE IF KeyMismatch(files[found[1]], handlers[c].sessionKey) THEN Returned(c, 403)
    ELSE Awaiting(c, [handlers[c] EXCEPT !.pc = "save", !.id = found[1],
                                         !.isPublic = ~files[found[1]].isPublic])

\* File.findOne answers the toggle of c.
ToggleFind(c) ==
    /\ handlers[c].pc = "findOne" /\ handlers[c].route = "toggle"
    /\ Toggled(c, FindOne(handlers[c].shortId))
    /\ UNCHANGED <<files, disk, fileFrame>>

\* Lines 316-323: file.save() wrote the flag; the new state is returned.
ToggleSave(c) ==
    /\ handlers[c].pc = "save" /\ handlers[c].route = "toggle"
    /\ files' = [files EXCEPT ![handlers[c].id].isPublic = handlers[c].isPublic]
    /\ Returned(c, 200)
    /\ UNCHANGED <<disk, fileFrame>>

\* Nothing was uploaded yet.
FileInit ==
    /\ files = <<>>
    /\ disk = {}
    /\ freshRelease = "1.0"
    /\ req = NoRequest
    /\ res = NoResponse
    /\ NoStreams
    /\ NoUploads
    /\ NoData

FileNext ==
    \E c \in Clients :
        \/ Post(c) \/ Find(c) \/ Rename(c) \/ Save(c)
        \/ Toggle(c) \/ ToggleFind(c) \/ ToggleSave(c)

FileSpec == FileInit /\ [][FileNext]_vars

(* ------------------------------ /api/admin ---------------------------- *)

\* Line 571.
ADMIN_PIN == "150515"

\* The x-admin-pin header and the pin of the body sent, "" where absent.
Pins ==
    {<<"", "">>, <<"000000", "">>, <<ADMIN_PIN, "">>, <<"", ADMIN_PIN>>}

\* Lines 572-579: adminAuth calls next().
adminAuth(header, body) == (IF header # "" THEN header ELSE body) = ADMIN_PIN

\* The lines at which app.use and the routes put their layers on the
\* stack; Express runs the layers that match a request in this order.
Registered ==
    [adminAuth |-> 581, settings |-> 644, ban |-> 655, unban |-> 666, clearAll |-> 714,
     create |-> 1046, delete |-> 1075, clear |-> 1086, restore |-> 1097,
     errorHandler |-> 1123, deleteSession |-> 1231]

\* Guarded, were the layers after the error handler out of adminAuth's reach.
GuardedBeforeErrorHandler(route) ==
    Registered.adminAuth < Registered[route] /\ Registered[route] < Registered.errorHandler

\* adminAuth runs before the route: its layer matches every path under
\* /api/admin and was put on the stack earlier.
Guarded(route) == Registered.adminAuth < Registered[route]

\* A request for an admin route, with its pins.
Admin(route, pins) == [NoHandler EXCEPT !.route = route, !.header = pins[1], !.body = pins[2]]

\* The response ends the request h of c, of which the route and the pins
\* stay on record.
Replied(c, h, code) ==
    handlers' = [handlers EXCEPT
                    ![c] = [Admin(h.route, <<h.header, h.body>>) EXCEPT !.status = code]]

\* Line 576: the request does not get past adminAuth.
Unauthorized(c, h) ==
    /\ Guarded(h.route) /\ ~adminAuth(h.header, h.body)
    /\ Replied(c, h, 401)

\* The request gets to its route.
Authorized(h) == Guarded(h.route) => adminAuth(h.header, h.body)

\* Lines 644-653: POST /api/admin/settings with a number as newLimit and
\* a boolean as pause.
Settings(c) ==
    /\ handlers[c].pc = "idle"
    /\ \E pins \in Pins, newLimit \in 1..MaxLimit, pause \in BOOLEAN :
        \/ Unauthorized(c, Admin("settings", pins)) /\ UNCHANGED <<uploadSpeedLimit, techPause>>
        \/ /\ Authorized(Admin("settings", pins))
           /\ uploadSpeedLimit' = newLimit
           /\ techPause' = pause
           /\ Replied(c, Admin("settings", pins), 200)
    /\ UNCHANGED <<files, disk, notifications, bans, adminFrame>>

\* BannedIP.findOne({ ip }): the place of the first record of the IP, <<>>
\* (null) when there is none.
FindBan(ip) ==
    IF \E i \in DOMAIN bans : bans[i].ip = ip
    THEN <<CHOOSE i \in DOMAIN bans : bans[i].ip = ip /\ \A j \in 1..(i - 1) : bans[j].ip # ip>>
    ELSE <<>>

\* BannedIP.updateOne({ ip }, ban, { upsert: true }).
Upserted(found, ban) ==
    IF found = <<>> THEN Append(bans, ban) ELSE [bans EXCEPT ![found[1]] = ban]

\* BannedIP.deleteOne({ ip }).
DeleteOne(found) ==
    IF found = <<>> THEN bans
    ELSE SubSeq(bans, 1, found[1] - 1) \o SubSeq(bans, found[1] + 1, Len(bans))

\* The durations sent, in ticks: 0 stands for a body without one.
Durations == {0, 2}

\* The addresses the administrator bans and unbans.
BannedIPs == {"10.0.0.1"}

\* Lines 655-663: POST /api/admin/ban.  bannedUntil is <<>> for null.
Ban(c) ==
    /\ handlers[c].pc = "idle"
    /\ \E pins \in Pins, ip \in BannedIPs, duration \in Durations, permanent \in BOOLEAN :
        \/ Unauthorized(c, Admin("ban", pins)) /\ UNCHANGED bans
        \/ /\ Authorized(Admin("ban", pins))
           /\ bans' = Upserted(FindBan(ip),
                               [ip |-> ip,
                                bannedUntil |-> IF duration # 0 THEN <<now + duration>> ELSE <<>>,
                                permanent |-> permanent])
           /\ Replied(c, Admin("ban", pins), 200)
    /\ UNCHANGED <<files, disk, notifications, uploadSpeedLimit, techPause, adminFrame>>

\* Lines 666-670: POST /api/admin/unban.
Unban(c) ==
    /\ handlers[c].pc = "idle"
    /\ \E pins \in Pins, ip \in BannedIPs :
        \/ Unauthorized(c, Admin("unban", pins)) /\ UNCHANGED bans
        \/ /\ Authorized(Admin("unban", pins))
           /\ bans' = DeleteOne(FindBan(ip))
           /\ Replied(c, Admin("unban", pins), 200)
    /\ UNCHANGED <<files, disk, notifications, uploadSpeedLimit, techPause, adminFrame>>

\* The places of the files a deleting route finds: File.find() of
\* line 716, File.find({ sessionKey }) of line 1234.
Found(route, sessionKey) ==
    {i \in DOMAIN files : route = "clearAll" \/ files[i].sessionKey = sessionKey}

\* Lines 714-731 and 1231-1258: POST /api/admin/clear-all and
\* DELETE /api/admin/sessions/:sessionKey unlink the files found and
\* delete their documents.
DeleteFiles(c) ==
    /\ handlers[c].pc = "idle"
    /\ \E pins \in Pins, route \in {"clearAll", "deleteSession"}, sessionKey \in Clients :
        \/ Unauthorized(c, Admin(route, pins)) /\ UNCHANGED <<files, disk>>
        \/ /\ Authorized(Admin(route, pins))
           /\ files' = SelectSeq(files, LAMBDA f : route # "clearAll" /\ f.sessionKey # sessionKey)
           /\ disk' = disk \ {files[i].shortId : i \in Found(route, sessionKey)}
           /\ Replied(c, Admin(route, pins), 200)
    /\ UNCHANGED <<notifications, bans, uploadSpeedLimit, techPause, adminFrame>>

(* ----------------------- /api/admin/notification ---------------------- *)

\* The documents one specification follows: one for each administrator
\* at work.
MaxNotifications == Cardinality(Clients)

\* Notification.updateMany({}, { active: false }).
Deactivated == [i \in DOMAIN notifications |-> [notifications[i] EXCEPT !.active = FALSE]]

\* Lines 1046-1059: POST /api/admin/notification.  A message is required;
\* an active notification waits for updateMany, another for save.
CreateNote(c) ==
    /\ handlers[c].pc = "idle"
    /\ Len(notifications) + Cardinality({d \in Clients : /\ handlers[d].route = "create"
                                                         /\ handlers[d].pc # "idle"})
            < MaxNotifications
    /\ \E pins \in Pins, message \in {"", "hi"}, active \in BOOLEAN :
        \/ Unauthorized(c, Admin("create", pins))
        \/ /\ Authorized(Admin("create", pins))
           /\ IF message = "" THEN Replied(c, Admin("create", pins), 400)
              ELSE Awaiting(c, [Admin("create", pins) EXCEPT
                                   !.active = active,
                                   !.pc = IF active THEN "updateMany" ELSE "save"])
    /\ UNCHANGED <<files, disk, notifications, bans, uploadSpeedLimit, techPause, adminFrame>>

\* Lines 1097-1102: POST /api/admin/notification/:id/restore waits for
\* updateMany.
RestoreNote(c) ==
    /\ handlers[c].pc = "idle"
    /\ \E pins \in Pins, id \in 1..MaxNotifications :
        \/ Unauthorized(c, Admin("restore", pins))
        \/ /\ Authorized(Admin("restore", pins))
           /\ Awaiting(c, [Admin("restore", pins) EXCEPT !.id = id, !.pc = "updateMany"])
    /\ UNCHANGED <<files, disk, notifications, bans, uploadSpeedLimit, techPause, adminFrame>>

\* Lines 1055 and 1102: updateMany deactivated every notification.
Deactivate(c) ==
    /\ handlers[c].pc = "updateMany"
    /\ notifications' = Deactivated
    /\ Awaiting(c, [handlers[c] EXCEPT
                       !.pc = IF handlers[c].route = "create" THEN "save" ELSE "findByIdAndUpdate"])
    /\ UNCHANGED <<files, disk, bans, uploadSpeedLimit, techPause, adminFrame>>

\* Lines 1058-1067: the new notification is saved.
SaveNote(c) ==
    /\ handlers[c].pc = "save" /\ handlers[c].route = "create"
    /\ notifications' = Append(notifications, [active |-> handlers[c].active, deleted |-> FALSE])
    /\ Replied(c, handlers[c], 200)
    /\ UNCHANGED <<files, disk, bans, uploadSpeedLimit, techPause, adminFrame>>

\* A notification with the id is in the collection.
Exists(id) == id \in DOMAIN notifications /\ ~notifications[id].deleted

\* Lines 1104-1115: findByIdAndUpdate activated the notification, or
\* found none.
Activate(c) ==
    /\ handlers[c].pc = "findByIdAndUpdate"
    /\ IF Exists(handlers[c].id)
       THEN /\ notifications' = [notifications EXCEPT ![handlers[c].id].active = TRUE]
            /\ Replied(c, handlers[c], 200)
       ELSE /\ UNCHANGED notifications
            /\ Replied(c, handlers[c], 404)
    /\ UNCHANGED <<files, disk, bans, uploadSpeedLimit, techPause, adminFrame>>

\* Lines 1075-1095: DELETE /api/admin/notification/:id removes the
\* document, whose place in the model stays as a deleted one, and
\* POST /api/admin/notification/clear deactivates every notification.
RemoveNotes(c) ==
    /\ handlers[c].pc = "idle"
    /\ \E pins \in Pins, route \in {"delete", "clear"}, id \in 1..MaxNotifications :
        \/ Unauthorized(c, Admin(route, pins)) /\ UNCHANGED notifications
        \/ /\ Authorized(Admin(route, pins))
           /\ notifications' =
                IF route = "clear" THEN Deactivated
                ELSE IF Exists(id)
                THEN [notifications EXCEPT ![id] = [active |-> FALSE, deleted |-> TRUE]]
                ELSE notifications
           /\ Replied(c, Admin(route, pins), 200)
    /\ UNCHANGED <<files, disk, bans, uploadSpeedLimit, techPause, adminFrame>>

\* Two administrators' requests for the notification routes.
NoteNext ==
    \E c \in Clients :
        \/ CreateNote(c) \/ RestoreNote(c) \/ Deactivate(c) \/ SaveNote(c)
        \/ Activate(c) \/ RemoveNotes(c)

NoteSpec == FileInit /\ [][NoteNext]_vars

\* One file, of the first client's session, is stored.
AdminInit ==
    /\ files = <<[shortId |-> <<"a">>, sessionKey |-> "c1", isPublic |-> FALSE]>>
    /\ disk = {<<"a">>}
    /\ freshRelease = "1.0"
    /\ req = NoRequest
    /\ res = NoResponse
    /\ NoStreams
    /\ NoUploads
    /\ NoData

\* The requests of one administrator, one handled after the other.
AdminNext ==
    \/ Settings("c1") \/ Ban("c1") \/ Unban("c1") \/ DeleteFiles("c1")
    \/ CreateNote("c1") \/ RestoreNote("c1") \/ Deactivate("c1") \/ SaveNote("c1")
    \/ Activate("c1") \/ RemoveNotes("c1")

AdminSpec == AdminInit /\ [][AdminNext]_vars

(* ---------------------------- checkBanMiddleware ---------------------- *)

\* Line 331: POST /upload from ip, with or without a file, passed on by
\* rateLimitMiddleware, is at line 265 awaiting BannedIP.findOne.
UploadFrom(c) ==
    /\ handlers[c].pc = "idle"
    /\ \E ip \in IPs, file \in BOOLEAN :
        /\ file => Len(files) + Cardinality({d \in Clients : handlers[d].file}) < MaxFiles
        /\ Awaiting(c, [NoHandler EXCEPT !.route = "upload", !.pc = "BannedIP.findOne",
                                         !.ip = ip, !.file = file])
    /\ UNCHANGED <<files, disk, bans, banFrame>>

\* next() of line 282: multer and then the upload handler run, which
\* answers 400 to a request without a file (lines 366-369) and draws a
\* random id for a file sent without a custom name.
HandedOn(c) ==
    IF handlers[c].file
    THEN \E digits3 \in RandomHex(3) :
            Awaiting(c, Named([handlers[c] EXCEPT !.sessionKey = c], <<>>, digits3))
    ELSE Returned(c, 400)

\* Lines 266-282 with the record found: the request of a banned IP is
\* answered 403, an expired record is deleted next, any other request is
\* handed on.
Judged(c, found) ==
    IF found # <<>> /\ bans[found[1]].permanent THEN Returned(c, 403)
    ELSE IF found # <<>> /\ bans[found[1]].bannedUntil # <<>>
    THEN IF now < bans[found[1]].bannedUntil[1] THEN Returned(c, 403)
         ELSE Awaiting(c, [handlers[c] EXCEPT !.pc = "BannedIP.deleteOne"])
    ELSE HandedOn(c)

\* BannedIP.findOne answers the middleware.
CheckBan(c) ==
    /\ handlers[c].pc = "BannedIP.findOne"
    /\ Judged(c, FindBan(handlers[c].ip))
    /\ UNCHANGED <<files, disk, bans, banFrame>>

\* Lines 278-282: the expired record is deleted and the request handed on.
ExpireBan(c) ==
    /\ handlers[c].pc = "BannedIP.deleteOne"
    /\ bans' = DeleteOne(FindBan(handlers[c].ip))
    /\ HandedOn(c)
    /\ UNCHANGED <<files, disk, banFrame>>

\* A tick passes: the instants at which bans end are one tick nearer, and
\* are followed until they are reached.
BanTick ==
    /\ bans' = [i \in DOMAIN bans |->
                  IF bans[i].bannedUntil # <<>> /\ bans[i].bannedUntil[1] > now
                  THEN [bans[i] EXCEPT !.bannedUntil = <<bans[i].bannedUntil[1] - 1>>]
                  ELSE bans[i]]
    /\ UNCHANGED <<files, disk, handlers, banFrame>>

\* Uploads of two clients while an administrator bans and unbans.
BanNext ==
    \/ \E c \in Clients : \/ UploadFrom(c) \/ CheckBan(c) \/ ExpireBan(c)
                          \/ Find(c) \/ Rename(c) \/ Save(c)
                          \/ Ban(c) \/ Unban(c)
    \/ BanTick

BanSpec == FileInit /\ [][BanNext]_vars

(* --------------------- the browser's uploadHistory -------------------- *)

\* Lines 28-38: the session key of the page, and the key of a session the
\* browser was in before.
currentSessionKey == "session1"

otherSessionKey == "session2"

\* The entry of the history for a file stored as storedName:
\* fileUrl is `/${storedName}` (lines 229, 274; line 432 of the server).
Item(storedName, sessionKey) == [fileUrl |-> <<"/">> \o storedName, sessionKey |-> sessionKey]

\* GET /api/session/:sessionKey/files (lines 906-928 of the server) and the
\* map of lines 228-235 and 273-280: the session's files, newest first,
\* as history entries.
RECURSIVE ServerItems(_, _)
ServerItems(docs, sessionKey) ==
    IF docs = <<>> THEN <<>>
    ELSE ServerItems(Tail(docs), sessionKey)
            \o (IF Head(docs).sessionKey = sessionKey
                THEN <<Item(Head(docs).shortId, sessionKey)>> ELSE <<>>)

\* Array.prototype.filter on the session key: the entries of the session
\* (own) or of the other sessions.
OfSession(history, sessionKey, own) ==
    SelectSeq(history, LAMBDA item : (item.sessionKey = sessionKey) = own)

\* The fileUrl values of a list of entries (the Sets of lines 286, 290).
Urls(items) == {items[i].fileUrl : i \in DOMAIN items}

\* An async function at an await, with what it holds.
At(f, pc, got) == tabs' = [tabs EXCEPT ![f] = [pc |-> pc, got |-> got]]

\* Lines 392-396 and 580-582: the server stored an upload of the session
\* and answered 200; updateHistory awaits createHistoryCard.
UploadDone ==
    /\ tabs.updateHistory.pc = "idle"
    /\ Len(files) < MaxFiles
    /\ \E shortId \in RandomHex(3) :
        /\ FindOne(shortId) = <<>>
        /\ files' = Append(files, [shortId |-> shortId, sessionKey |-> currentSessionKey,
                                   isPublic |-> FALSE])
        /\ At("updateHistory", "createHistoryCard", Item(shortId, currentSessionKey))
    /\ UNCHANGED <<localStorage, browserFrame>>

\* Lines 594-603: the entry is pushed onto the stored history.
PushHistory ==
    /\ tabs.updateHistory.pc = "createHistoryCard"
    /\ localStorage' = Append(localStorage, tabs.updateHistory.got)
    /\ At("updateHistory", "idle", <<>>)
    /\ UNCHANGED <<files, browserFrame>>

\* A fetch of the session's files was answered by the server: line 266 of
\* syncSessionFiles (timer, visibility, after an upload, history tab) or
\* line 216 of loadSessionHistory.
Fetch(f) ==
    /\ f \in {"syncSessionFiles", "loadSessionHistory"}
    /\ tabs[f].pc = "idle"
    /\ At(f, "json", ServerItems(files, currentSessionKey))
    /\ UNCHANGED <<files, localStorage, browserFrame>>

\* Lines 283-319: the history is rewritten with the server's files for
\* the session when a file is new or was deleted.
SyncMerge ==
    /\ tabs.syncSessionFiles.pc = "json"
    /\ localStorage' =
          IF Urls(tabs.syncSessionFiles.got)
                # Urls(OfSession(localStorage, currentSessionKey, TRUE))
          THEN OfSession(localStorage, currentSessionKey, FALSE) \o tabs.syncSessionFiles.got
          ELSE localStorage
    /\ At("syncSessionFiles", "idle", <<>>)
    /\ UNCHANGED <<files, browserFrame>>

\* Lines 223-247: unless the server has no file of the session, its
\* entries are replaced by the server's files.
MergeSession ==
    /\ tabs.loadSessionHistory.pc = "json"
    /\ localStorage' =
          IF tabs.loadSessionHistory.got = <<>> THEN localStorage
          ELSE OfSession(localStorage, currentSessionKey, FALSE) \o tabs.loadSessionHistory.got
    /\ At("loadSessionHistory", "idle", <<>>)
    /\ UNCHANGED <<files, browserFrame>>

\* Lines 610-623: loadHistory read the stored history and awaits the HEAD
\* requests for the session's entries.
LoadHistory ==
    /\ tabs.loadHistory.pc = "idle"
    /\ At("loadHistory", "HEAD", localStorage)
    /\ UNCHANGED <<files, localStorage, browserFrame>>

\* Lines 622-636: the entries whose file the server still has are kept,
\* and the history read at line 614 is written back with them.
Verified ==
    /\ tabs.loadHistory.pc = "HEAD"
    /\ localStorage' =
          OfSession(tabs.loadHistory.got, currentSessionKey, FALSE)
             \o SelectSeq(OfSession(tabs.loadHistory.got, currentSessionKey, TRUE),
                          LAMBDA item : \E i \in DOMAIN files : item.fileUrl = <<"/">> \o files[i].shortId)
    /\ At("loadHistory", "idle", <<>>)
    /\ UNCHANGED <<files, browserFrame>>

\* The page is loaded: the history holds an entry of another session and
\* perhaps one of this session for a file the server no longer has.
BrowserInit ==
    /\ files = <<>>
    /\ disk = {}
    /\ freshRelease = "1.0"
    /\ req = NoRequest
    /\ res = NoResponse
    /\ NoStreams
    /\ NoUploads
    /\ handlers = [c \in Clients |-> NoHandler]
    /\ notifications = <<>>
    /\ bans = <<>>
    /\ localStorage \in {<<Item(<<"o">>, otherSessionKey)>>,
                         <<Item(<<"d">>, currentSessionKey), Item(<<"o">>, otherSessionKey)>>}
    /\ tabs = [f \in {"updateHistory", "syncSessionFiles", "loadSessionHistory", "loadHistory"}
                  |-> [pc |-> "idle", got |-> <<>>]]

BrowserNext ==
    \/ UploadDone \/ PushHistory
    \/ \E f \in {"syncSessionFiles", "loadSessionHistory"} : Fetch(f)
    \/ SyncMerge \/ MergeSession \/ LoadHistory \/ Verified

BrowserSpec == BrowserInit /\ [][BrowserNext]_vars

(* ------------------------------ properties ---------------------------- *)

\* The route answered a request for the stored file, whose bytes are on
\* disk.
Served == ~Idle /\ req.base = "abc" /\ OnDisk

Size == TheFile.size

\* The stored file's type is one the server takes Range headers for:
\* video/*, audio/*, image/* or application/pdf.
RangeCapable == TheFile.originalName.ext \in {".mp4", ".MP3", ".png", ".pdf"}

\* The decimal text of a one-digit number.
Digit(n) == <<Digits[n + 1]>>

\* The ETag of the stored file, modified at 26 = 0x1a, written out.
ExpectedETag == <<"W", "/", "\"">> \o Digit(Size) \o <<"-", "1", "a", "\"">>

ExpectedStale == <<"W", "/", "\"">> \o Digit(Size) \o <<"-", "1", "b", "\"">>

\* The If-None-Match values sent that name the current ETag: the tag, its
\* strong form, '*', a list holding it, and the tag with a second W/.
MatchingValidators ==
    {ExpectedETag, SubSeq(ExpectedETag, 3, Len(ExpectedETag)), <<"*">>,
     ExpectedStale \o <<",", " ">> \o ExpectedETag, <<"W", "/">> \o ExpectedETag}

NoMatchingValidator == req.headers.ifNoneMatch \notin MatchingValidators

\* The request's Range header is `<unit>=<item>`, a single element.
AskedOne(unit, item) == req.asked = RangeList(unit, <<item>>)

HasHeader(name) == name \in DOMAIN res.headers

\* The response streams the bytes first..last of the file.
Streams(first, last) ==
    res.body.kind = "file" /\ res.body.start = first /\ res.body.end = last

\* 206 for the window first..last: Content-Range, Content-Length and the
\* stream agree on it.
Partial(first, last) ==
    /\ res.status = 206
    /\ HasHeader("ContentRange")
    /\ res.headers.ContentRange =
           Bytes \o <<" ">> \o Digit(first) \o <<"-">> \o Digit(last) \o <<"/">> \o Digit(Size)
    /\ res.headers.ContentLength = last - first + 1
    /\ Streams(first, last)

\* 416 with Content-Range `bytes */size` and no file bytes.
Unsatisfiable ==
    /\ res.status = 416
    /\ HasHeader("ContentRange")
    /\ res.headers.ContentRange = Bytes \o <<" ", "*", "/">> \o Digit(Size)
    /\ res.body.kind # "file"

\* 200 with Content-Length = size and the whole file.
Full ==
    /\ res.status = 200
    /\ HasHeader("ContentLength")
    /\ res.headers.ContentLength = Size
    /\ ~HasHeader("ContentRange")
    /\ Streams(0, Size - 1)

\* 304 with the ETag header and no body.
NotModified ==
    /\ res.status = 304
    /\ res.headers.ETag = ExpectedETag
    /\ res.body = NoBody

\* C1 as stated (on a non-empty file): a request for an existing file
\* whose If-None-Match equals the file's ETag is answered 304 with the ETag
\* header and no body, whatever its Range header.
C1_MatchingETagIsNotModified ==
    (Served /\ Size > 0 /\ req.headers.ifNoneMatch = ExpectedETag) => NotModified

\* C1, amended: a request for an existing file whose If-None-Match equals
\* the file's ETag, and which carries neither a Cache-Control header with
\* the no-cache directive nor an If-Modified-Since header, is answered 304
\* with the ETag header and no body, whether its Range header is absent,
\* satisfiable, unsatisfiable or malformed: never 206, 416 or a stream.
C1_FreshnessBeforeRange ==
    (/\ Served
     /\ req.headers.ifNoneMatch = ExpectedETag
     /\ req.headers.cacheControl \in {<<>>, MaxAge0}
     /\ req.headers.ifModifiedSince = <<>>)
        => NotModified

\* C1's case: a satisfiable Range header on a range-capable file, sent with
\* the current ETag, answered 304.
C1_Witness ==
    /\ Served
    /\ RangeCapable
    /\ Size > 0
    /\ req.headers.ifNoneMatch = ExpectedETag
    /\ AskedOne(Bytes, Closed(0, 0))
    /\ res.status = 304

\* The route answered a request for the stored file, range-capable and on
\* disk, that carries no matching validator.
Probed == Served /\ RangeCapable /\ NoMatchingValidator

\* C2: on a range-capable file of size > 0, Range: bytes=a-b with
\* 0 <= a <= b < size and no matching validator is answered 206 with
\* Content-Range `bytes a-b/size` and Content-Length b-a+1.
C2_ValidRangeIsPartialContent ==
    Probed => \A a \in 0..MaxSize, b \in 0..MaxSize :
        (/\ a <= b /\ b < Size
         /\ AskedOne(Bytes, Closed(a, b)))
            => Partial(a, b)

C2_Witness ==
    /\ Served
    /\ RangeCapable
    /\ Size = MaxSize
    /\ AskedOne(Bytes, Closed(1, 2))
    /\ NoMatchingValidator
    /\ res.status = 206
    /\ res.headers.ContentLength = 2

\* C3: on a range-capable file, with no matching validator, a Range header
\* whose start is >= size, or whose start is greater than its end clamped
\* to size - 1, is answered 416 with Content-Range `bytes */size`, and no
\* file bytes are streamed.
C3_UnsatisfiableRangeIs416 ==
    Probed => \A a \in Nums, b \in Nums :
        /\ (/\ (a >= Size \/ a > b)
            /\ AskedOne(Bytes, Closed(a, b)))
                => Unsatisfiable
        /\ (/\ a >= Size
            /\ AskedOne(Bytes, Open(a)))
                => Unsatisfiable

\* C3's cases: a start past the end of the file, and a start after the end.
C3_Witness ==
    /\ Served
    /\ RangeCapable
    /\ NoMatchingValidator
    /\ \/ Size = 2 /\ AskedOne(Bytes, Closed(3, 4))
       \/ Size = 3 /\ AskedOne(Bytes, Closed(2, 1))
       \/ Size = 1 /\ AskedOne(Bytes, Open(1))
    /\ res.status = 416

\* C4: on a range-capable file, with no matching validator, Range:
\* bytes=a- with a < size is answered 206 for a..size-1 (Content-Length
\* size - a), and an end past size - 1 is clamped to size - 1.
C4_OpenEndedAndClampedEnd ==
    Probed => \A a \in Nums, b \in Nums :
        /\ (/\ a < Size
            /\ AskedOne(Bytes, Open(a)))
                => (Partial(a, Size - 1) /\ res.headers.ContentLength = Size - a)
        /\ (/\ a < Size /\ b > Size - 1
            /\ AskedOne(Bytes, Closed(a, b)))
                => Partial(a, Size - 1)

\* C4's cases: an open-ended range and an end past the end of the file.
C4_Witness ==
    /\ Served
    /\ RangeCapable
    /\ NoMatchingValidator
    /\ Size = 3
    /\ (AskedOne(Bytes, Open(1)) \/ AskedOne(Bytes, Closed(1, 4)))
    /\ res.status = 206
    /\ Streams(1, 2)

\* C5 as stated (on a non-empty file): on a range-capable file, with no
\* matching validator, Range: bytes=-N with N <= size, N = 0 and N = size
\* included, is answered 206 for size-N..size-1.
C5_EverySuffixIsPartialContent ==
    Probed => \A n \in 0..MaxSize :
        (/\ Size > 0
         /\ n <= Size
         /\ AskedOne(Bytes, Suffix(n)))
            => (res.status = 206 /\ Streams(Size - n, Size - 1))

\* C5, amended: Range: bytes=-N with 1 <= N <= size is answered 206 for
\* size-N..size-1, and bytes=-0 is answered 416.
C5_SuffixRange ==
    Probed => \A n \in 0..MaxSize :
        /\ (/\ 1 <= n /\ n <= Size
            /\ AskedOne(Bytes, Suffix(n)))
                => Partial(Size - n, Size - 1)
        /\ (/\ n = 0
            /\ AskedOne(Bytes, Suffix(n)))
                => Unsatisfiable

\* C5's case: the last two bytes of a file of three.
C5_Witness ==
    /\ Served
    /\ RangeCapable
    /\ NoMatchingValidator
    /\ Size = 3
    /\ AskedOne(Bytes, Suffix(2))
    /\ res.status = 206
    /\ Streams(1, 2)

\* C6: for a file whose type is not range-capable every Range header is
\* ignored: the response is 304, or 200 with Content-Length = size and the
\* whole file; never 206 or 416, and no Accept-Ranges header is sent.
C6_RangeIgnoredForOtherTypes ==
    (Served /\ ~RangeCapable /\ req.headers.range # <<>>)
        => /\ res.status = 304 \/ Full
           /\ ~HasHeader("AcceptRanges")

\* C6's case: a satisfiable Range header on a text file, answered 200.
C6_Witness ==
    /\ Served
    /\ ~RangeCapable
    /\ Size = 2
    /\ AskedOne(Bytes, Closed(0, 0))
    /\ res.status = 200
    /\ Streams(0, 1)

\* The Content-Type by the extension of the stored file's name.
ExpectedType ==
    CASE TheFile.originalName.ext = ".mp4" -> VideoMp4
      [] TheFile.originalName.ext = ".MP3" -> AudioMpeg
      [] TheFile.originalName.ext = ".png" -> ImagePng
      [] TheFile.originalName.ext = ".pdf" -> ApplicationPdf
      [] TheFile.originalName.ext = ".txt" -> TextPlain
      [] OTHER -> ApplicationOctetStream

\* C7: on a range-capable file a request with no Range header and no
\* matching validator is answered 200 with ETag, Content-Type,
\* Content-Length = size and Accept-Ranges: bytes, and the whole file.
C7_NoRangeIsFullContent ==
    (Served /\ RangeCapable /\ req.asked = NoRange /\ req.headers.range = <<>>
        /\ NoMatchingValidator)
        => /\ Full
           /\ res.headers.ETag = ExpectedETag
           /\ res.headers.ContentType = ExpectedType
           /\ HasHeader("AcceptRanges")
           /\ res.headers.AcceptRanges = Bytes

C7_Witness ==
    /\ Served
    /\ RangeCapable
    /\ Size = 3
    /\ req.headers.range = <<>>
    /\ NoMatchingValidator
    /\ res.status = 200
    /\ Streams(0, 2)

\* C8: on a range-capable file, with no matching validator, a Range header
\* whose unit is not bytes (here items=a-b with 0 <= a <= b < size) is
\* answered 200 with the whole file and Content-Length = size, never 206
\* and never 416.
C8_UnknownUnitIsFullContent ==
    Probed => \A a \in 0..MaxSize, b \in 0..MaxSize :
        (/\ a <= b /\ b < Size
         /\ AskedOne(Items, Closed(a, b)))
            => Full

\* The Range header is malformed: it has no '=', or its list holds an
\* element that is no byte-range-spec.
MalformedRange ==
    \/ req.asked.kind = "raw"
    \/ /\ req.asked.kind = "list"
       /\ \E i \in 1..Len(req.asked.items) : req.asked.items[i].form = "odd"

\* 200 with the headers of a full response.
FullWithHeaders ==
    /\ Full
    /\ res.headers.ETag = ExpectedETag
    /\ res.headers.ContentType = ExpectedType
    /\ HasHeader("AcceptRanges")
    /\ res.headers.AcceptRanges = Bytes

\* C9 as stated (on a non-empty file, for the unit bytes): on a
\* range-capable file, with no matching validator, every malformed Range
\* header (bytes=abc and headers without '=' included) is answered 200 with
\* the headers of a full response and the whole file.
C9_MalformedIsFullContent ==
    (/\ Served
     /\ RangeCapable
     /\ Size > 0
     /\ NoMatchingValidator
     /\ MalformedRange
     /\ req.asked.kind = "list" => req.asked.unit = Bytes)
        => FullWithHeaders

\* The elements without any digit: '', 'abc', '-'.
DigitlessItems == {Odd(<<>>), Odd(<<"a", "b", "c">>), Odd(<<"-">>)}

\* C9, amended: a Range header without '=' is answered 200 with the
\* headers of a full response and the whole file; a header
\* `<unit>=<element>` whose element has no digit (bytes=abc, bytes=,
\* bytes=-) is answered 416 with Content-Range `bytes */size`.
C9_NoEqualsIsFullContent ==
    /\ (Served /\ RangeCapable /\ NoMatchingValidator /\ req.asked.kind = "raw")
            => FullWithHeaders
    /\ \A item \in DigitlessItems :
            (Served /\ RangeCapable /\ NoMatchingValidator /\ AskedOne(Bytes, item))
                => Unsatisfiable

\* C9's case: the header `bytes 0-1`, with a blank for the '='.
C9_Witness ==
    /\ Served
    /\ RangeCapable
    /\ NoMatchingValidator
    /\ Size = 3
    /\ req.asked = RawRange(Bytes \o <<" ", "0", "-", "1">>)
    /\ res.status = 200
    /\ Streams(0, 2)

\* The window an element asks for in the stored file: first..last with
\* the end clamped to size - 1.
WindowOf(item) ==
    CASE item.form = "closed" ->
            [first |-> item.first, last |-> Min(item.last, Size - 1)]
      [] item.form = "open" -> [first |-> item.first, last |-> Size - 1]
      [] OTHER -> [first |-> Size - item.length, last |-> Size - 1]

Satisfiable(w) == 0 <= w.first /\ w.first <= w.last

\* Two windows overlap or are adjacent.
Touching(v, w) == v.first <= w.last + 1 /\ w.first <= v.last + 1

\* The elements asked for are each satisfiable and pairwise overlapping or
\* adjacent.
AskedTouching ==
    /\ req.asked.kind = "list"
    /\ req.asked.unit = Bytes
    /\ Len(req.asked.items) >= 2
    /\ \A i \in 1..Len(req.asked.items) :
            /\ req.asked.items[i].form # "odd"
            /\ Satisfiable(WindowOf(req.asked.items[i]))
    /\ \A i, j \in 1..Len(req.asked.items) :
            Touching(WindowOf(req.asked.items[i]), WindowOf(req.asked.items[j]))

AskedFirsts == {WindowOf(req.asked.items[i]).first : i \in 1..Len(req.asked.items)}

AskedLasts == {WindowOf(req.asked.items[i]).last : i \in 1..Len(req.asked.items)}

\* C10: on a range-capable file, with no matching validator, a Range header
\* listing several satisfiable ranges that pairwise overlap or are adjacent
\* is answered by one 206 for their union, from the smallest start to the
\* largest clamped end, in whatever order the header lists them.
C10_TouchingRangesAreMerged ==
    (Served /\ RangeCapable /\ NoMatchingValidator /\ AskedTouching)
        => Partial(CHOOSE a \in AskedFirsts : \A x \in AskedFirsts : a <= x,
                   CHOOSE b \in AskedLasts : \A x \in AskedLasts : x <= b)

\* C10's case: two adjacent ranges, the later one listed first.
C10_Witness ==
    /\ Served
    /\ RangeCapable
    /\ NoMatchingValidator
    /\ Size = 3
    /\ req.asked = RangeList(Bytes, <<Closed(2, 2), Closed(0, 1)>>)
    /\ AskedTouching
    /\ res.status = 206
    /\ Streams(0, 2)

\* C11: every 206 carries a window start..end with 0 <= start <= end <
\* size; Content-Range names it, the read stream is opened for exactly
\* start..end, and Content-Length is end - start + 1.
C11_PartialWindowWithinFile ==
    res.status = 206 =>
        \E first \in 0..MaxSize, last \in 0..MaxSize :
            /\ first <= last
            /\ last < Size
            /\ Partial(first, last)

\* C11's case: the only window of a one-byte file, asked for as its last
\* byte.
C11_Witness ==
    /\ Served
    /\ Size = 1
    /\ AskedOne(Bytes, Suffix(1))
    /\ res.status = 206
    /\ Partial(0, 0)

\* C12 as stated: a 304 is produced only when If-None-Match is exactly the
\* file's ETag string.
C12_NotModifiedOnlyOnExactETag ==
    (Served /\ res.status = 304) => req.headers.ifNoneMatch = ExpectedETag

\* The response went past the freshness check: range or full-content
\* handling produced it.
PastFreshness == res.status \in {200, 206, 416}

\* C12, amended: a 304 is produced only when If-None-Match is present and
\* names the file's ETag ('*', or a comma-separated list with an element
\* equal to the ETag up to one W/ prefix on either side); a request whose
\* If-None-Match is absent, is no tag at all or names other tags only goes
\* on to range or full-content handling.
C12_NotModifiedOnlyOnMatch ==
    Served =>
        /\ res.status = 304 => req.headers.ifNoneMatch \in MatchingValidators
        /\ NoMatchingValidator => PastFreshness

\* C12's cases: '*' answered 304, and a text that is no tag answered with
\* the file.
C12_Witness ==
    /\ Served
    /\ \/ req.headers.ifNoneMatch = <<"*">> /\ res.status = 304
       \/ req.headers.ifNoneMatch = <<"x", ",", ",">> /\ res.status = 200

\* The max-age of the Cache-Control tier of the stored file's type.
ExpectedMaxAge ==
    CASE TheFile.originalName.ext \in {".mp4", ".MP3"} -> <<"2", "5", "9", "2", "0", "0", "0">>
      [] TheFile.originalName.ext = ".png" -> <<"6", "0", "4", "8", "0", "0">>
      [] OTHER -> <<"8", "6", "4", "0", "0">>

\* C13: every 200 and 206 carries Cache-Control `public, max-age=<tier>,
\* immutable` with the tier 2592000 for video and audio, 604800 for
\* images and 86400 for everything else, and Content-Disposition inline
\* with the original name as filename.
C13_CacheControlTierAndInline ==
    res.status \in {200, 206} =>
        /\ res.headers.CacheControl =
               [public |-> TRUE, maxAge |-> ExpectedMaxAge, immutable |-> TRUE]
        /\ res.headers.ContentDisposition =
               [type |-> "inline", filename |-> TheFile.originalName]

\* C13's cases: an image answered 200 and an audio file answered 206.
C13_Witness ==
    \/ /\ TheFile.originalName.ext = ".png"
       /\ res.status = 200
       /\ res.headers.CacheControl.maxAge = <<"6", "0", "4", "8", "0", "0">>
    \/ /\ TheFile.originalName.ext = ".MP3"
       /\ res.status = 206
       /\ res.headers.CacheControl.maxAge = <<"2", "5", "9", "2", "0", "0", "0">>

(* ------------------------- properties: streams ------------------------ *)

\* console.error wrote the failure of c's stream.
Logged(c) == \E i \in 1..Len(log) : log[i] = StreamError(c)

\* The route's 'error' listener is attached to c's stream.
Listened(c) == streams[c].res.body.kind = "file" /\ streams[c].res.body.errorHandler

C15_StreamFailureNeverFatal ==
    /\ running
    /\ \A c \in Clients : streams[c].failed => Logged(c)

\* C16 as stated: a response whose stream failed after the head was
\* written is eventually ended or its connection closed.
C16_FailedResponseIsAborted ==
    \A c \in Clients :
        streams[c].failedLate ~> (streams[c].finished \/ streams[c].socket = "closed")

\* C17 as stated: once the client has disconnected while the body was
\* being streamed, the copy has stopped and the descriptor of the read
\* stream opened for its request is eventually closed.
C17_DisconnectReleasesHandle ==
    \A c \in Clients :
        (streams[c].socket = "closed" /\ Len(streams[c].got) > 0)
            ~> (~streams[c].piped /\ streams[c].fd # "open")

\* The positions first, first + 1, ... of n bytes.
Positions(first, n) == [i \in 1..n |-> first + i - 1]

\* What c was sent is what the route decides for its request alone, and
\* the bytes written to it are those of its own window, in order; a
\* response that ended without a failure carries the whole window.
ServedAsAlone(c) ==
    /\ streams[c].res = GetStoredName(streams[c].req)
    /\ streams[c].heads \in {<<>>, <<streams[c].res.status>>, <<500>>}
    /\ streams[c].res.body.kind = "file" =>
            /\ streams[c].got = Positions(streams[c].res.body.start, Len(streams[c].got))
            /\ (streams[c].finished /\ ~streams[c].failed) =>
                    Len(streams[c].got) =
                        streams[c].res.body.end - streams[c].res.body.start + 1

\* C18: under every interleaving of the clients' requests for the same
\* file, each is sent the status, headers and bytes the route decides for
\* it alone, and no step of the route changes the File collection, the
\* settings or the rate-limit entries.
C18_RequestsDoNotInterfere ==
    /\ [](\A c \in Clients : streams[c].req # NoRequest => ServedAsAlone(c))
    /\ [][UNCHANGED <<files, disk, rateLimits, uploadSpeedLimit, techPause>>]_vars

\* C18's case: two range requests in flight, the second started while the
\* first was half way, both delivered whole.
C18_Witness ==
    /\ streams["c1"].finished
    /\ streams["c2"].finished
    /\ streams["c1"].got = Positions(0, MaxSize)
    /\ streams["c2"].got = Positions(1, MaxSize - 1)
    /\ streams["c1"].heads = <<206>>
    /\ streams["c2"].heads = <<206>>

(* --------------------- properties: rateLimitMiddleware ---------------- *)

\* The requests of ip passed on in the minute up to now.
PassedLastMinute(ip) == Since(PassedOf(ip), now - Minute)

LimitExceeded == upload.error = "Upload limit exceeded"

Recent(entry) == Since(entry.timestamps, now - FiveMinutes)

\* The entry is under a block that has not ended.
Blocked(entry) == entry.blockedUntil # Null /\ now < entry.blockedUntil

\* The entry of the IP of the last upload request.
UploadEntry == EntryOf(rateLimits, upload.ip)

\* C20: an entry with more than BlockThreshold timestamps in the last five
\* minutes is blocked for a day from the last of them; the request that
\* takes it over the threshold is rejected; no request is passed on while
\* the block lasts; and the block rejects a request only while it lasts,
\* so that requests are taken again from the instant it ends.
C20_BlockForADay ==
    /\ \A ip \in DOMAIN rateLimits :
            Len(Recent(rateLimits[ip])) > BlockThreshold =>
                rateLimits[ip].blockedUntil =
                    Recent(rateLimits[ip])[Len(Recent(rateLimits[ip]))] + Day
    /\ upload.error = "Too many uploads - blocked for 24 hours" =>
            /\ upload.status = 429
            /\ Len(Recent(UploadEntry)) > BlockThreshold
            /\ UploadEntry.blockedUntil = now + Day
    /\ upload.status = 0 =>
            /\ ~Blocked(UploadEntry)
            /\ Len(Recent(UploadEntry)) <= BlockThreshold
    /\ upload.error = "Too many uploads - try again later" =>
            upload.status = 429 /\ Blocked(UploadEntry)

\* C20's case: a request passed on at the instant the block of its IP
\* ends.
C20_Witness ==
    /\ upload.status = 0
    /\ upload.error = ""
    /\ UploadEntry.blockedUntil = now
    /\ UploadEntry.timestamps = <<now>>

(* ---------------------------------------------------------------------- *)
(* C21: no two File records share a shortId.                              *)
(* ---------------------------------------------------------------------- *)

\* C21 as stated: after any sequence or interleaving of uploads, with a
\* custom filename or with random ids, every stored file has a shortId
\* different from every other stored file's.
C21_ShortIdsAreUnique ==
    \A i, j \in DOMAIN files : i # j => files[i].shortId # files[j].shortId

(* ---------------------------------------------------------------------- *)
(* C22: /api/toggle-public flips the flag only for the file's own key.    *)
(* ---------------------------------------------------------------------- *)

\* The handler of c returns in this step with the status code.
Answers(c, code) == handlers[c].pc # "idle" /\ handlers'[c].pc = "idle" /\ handlers'[c].status = code

\* The isPublic flag of the document i changes in this step.
Flips(i) == i \in DOMAIN files /\ files'[i].isPublic # files[i].isPublic

\* C22: a toggle for a shortId that no file has is answered 404 and one
\* whose sessionKey differs from the file's is answered 403, both without
\* changing any file's isPublic; a flag changes only in a step of a toggle
\* whose sessionKey equals the one stored on that file.
C22_ToggleOnlyWithOwnKey ==
    [][\A c \in Clients :
          /\ (ToggleFind(c) /\ FindOne(handlers[c].shortId) = <<>>)
                => Answers(c, 404) /\ \A i \in DOMAIN files : ~Flips(i)
          /\ (/\ ToggleFind(c) /\ FindOne(handlers[c].shortId) # <<>>
              /\ files[FindOne(handlers[c].shortId)[1]].sessionKey # handlers[c].sessionKey)
                => Answers(c, 403) /\ \A i \in DOMAIN files : ~Flips(i)
          /\ \A i \in DOMAIN files :
                Flips(i) => \E d \in Clients :
                                /\ handlers[d].route = "toggle"
                                /\ handlers[d].shortId = files[i].shortId
                                /\ handlers[d].sessionKey = files[i].sessionKey
                                /\ Answers(d, 200)]_vars

\* C22's case: toggles were answered 404 and 403, and a file uploaded as
\* private is public after a toggle with its own key.
C22_Witness ==
    /\ handlers["c1"].status = 404
    /\ handlers["c2"].status = 403
    /\ \E i \in DOMAIN files : files[i].isPublic /\ files[i].sessionKey = "c2"


(* ---------------------------------------------------------------------- *)
(* C23: at most one notification is active.                               *)
(* ---------------------------------------------------------------------- *)

\* C23 as stated: in every reachable state at most one Notification has
\* active = true, whatever the sequence of create, restore, clear and
\* delete requests and however two handlers interleave at their awaits.
C23_AtMostOneActive ==
    Cardinality({i \in DOMAIN notifications : notifications[i].active}) <= 1

(* ---------------------------------------------------------------------- *)
(* C24: without the admin PIN no admin route runs.                        *)
(* ---------------------------------------------------------------------- *)

\* The request of c that starts in this step carries the admin PIN neither
\* in the x-admin-pin header nor in the body.
StartsWithoutPin(c) ==
    /\ handlers[c].pc = "idle"
    /\ handlers'[c] # handlers[c]
    /\ handlers'[c].header # ADMIN_PIN
    /\ handlers'[c].body # ADMIN_PIN

\* C24: a request for a path under /api/admin that does not carry the
\* admin PIN is answered 401 in the step in which it arrives, no handler is
\* left running for it, and the File records, the stored files, the bans,
\* the notifications and the settings are unchanged; so for every admin
\* route, those registered after the error handler included.
C24_NoPinNoEffect ==
    [][\A c \in Clients :
          StartsWithoutPin(c) =>
              /\ handlers'[c].pc = "idle"
              /\ handlers'[c].status = 401
              /\ UNCHANGED <<files, disk, bans, notifications, uploadSpeedLimit, techPause>>]_vars

\* C24's case: with a file, a ban and an active notification stored and
\* the limit changed, a request without the PIN for the route that
\* deletes a session's files, registered after the error handler, was
\* answered 401.
C24_Witness ==
    /\ handlers["c1"].route = "deleteSession"
    /\ handlers["c1"].status = 401
    /\ handlers["c1"].header = "000000" /\ handlers["c1"].body = ""
    /\ Len(files) = 1
    /\ Len(bans) = 1
    /\ \E i \in DOMAIN notifications : notifications[i].active
    /\ uploadSpeedLimit = 1


(* ---------------------------------------------------------------------- *)
(* C25: a banned IP's uploads are rejected until the ban ends.            *)
(* ---------------------------------------------------------------------- *)

\* The record POST /api/admin/ban stored for the IP of c's upload has not
\* been deleted and, where it has a bannedUntil and is not permanent, that
\* instant has not passed.
BanInForce(c) ==
    /\ FindBan(handlers[c].ip) # <<>>
    /\ \/ bans[FindBan(handlers[c].ip)[1]].permanent
       \/ bans[FindBan(handlers[c].ip)[1]].bannedUntil = <<>>
       \/ now < bans[FindBan(handlers[c].ip)[1]].bannedUntil[1]

\* C25 as stated: after a ban of an IP, with whatever duration, permanent
\* and reason, an upload from that IP is answered 403 by the middleware
\* and does not reach the upload handler, until the IP is unbanned or its
\* bannedUntil has passed; after that the next upload deletes the record
\* and goes on to the handler.
C25_BannedUploadsAreRejected ==
    [][\A c \in Clients :
          /\ (CheckBan(c) /\ BanInForce(c)) => Answers(c, 403)
          /\ (CheckBan(c) /\ FindBan(handlers[c].ip) # <<>> /\ ~BanInForce(c))
                => handlers'[c].pc = "BannedIP.deleteOne"
          /\ ExpireBan(c) => FindBan(handlers[c].ip)' = <<>> /\ handlers'[c].status # 403]_vars


(* ---------------------------------------------------------------------- *)
(* C26: the stored history has no duplicates and keeps other sessions.    *)
(* ---------------------------------------------------------------------- *)

\* C26 as stated: 'uploadHistory' never holds two entries with the same
\* fileUrl for the same sessionKey, and no step changes the entries of
\* other session keys, however updateHistory, syncSessionFiles,
\* loadSessionHistory and loadHistory interleave at their awaits.
C26_HistoryHasNoDuplicates ==
    /\ [](\A i, j \in DOMAIN localStorage : i # j => localStorage[i] # localStorage[j])
    /\ [][OfSession(localStorage', currentSessionKey, FALSE)
            = OfSession(localStorage, currentSessionKey, FALSE)]_vars


(* ---------------------------------------------------------------------- *)
(* C27: with a limit of at most a fifth of the threshold nobody is blocked. *)
(* ---------------------------------------------------------------------- *)

\* C27: while uploadSpeedLimit stays at a value of at most a fifth of the
\* threshold (10, or at most 20, for the threshold 100), no IP has more
\* timestamps on record than the threshold, blockedUntil is never set,
\* and no request is answered with the 24-hour block.
C27_NeverBlocked ==
    /\ \A ip \in DOMAIN rateLimits :
            /\ Len(rateLimits[ip].timestamps) <= threshold
            /\ rateLimits[ip].blockedUntil = Null
    /\ upload.error \notin {"Too many uploads - blocked for 24 hours",
                             "Too many uploads - try again later"}

\* C27's case: an IP uploaded as fast as the limit allows for five
\* minutes, has as many timestamps on record as the threshold, and its
\* last request was passed on.
C27_Witness ==
    /\ upload.status = 0
    /\ Len(UploadEntry.timestamps) = threshold
    /\ threshold = 5 * uploadSpeedLimit
    /\ UploadEntry.blockedUntil = Null


====
